---- MODULE Spec2Model ----
(***************************************************************************)
(* A model of the CTViewer volume-rendering engine: the flat C ABI of      *)
(* CTViewer.cpp over the VolumeRenderer class of VolumeRenderer.cpp.       *)
(*                                                                         *)
(* Representation.                                                         *)
(*  - A ComPtr<T> is <<>> when null and <<obj>> when it holds an object;   *)
(*    std::unique_ptr<VolumeRenderer> g_renderer likewise.                 *)
(*  - `&m_x` on a ComPtr releases what it holds before the call writes to  *)
(*    it (ComPtr::operator& is ReleaseAndGetAddressOf), and a failing      *)
(*    Direct3D creation call leaves its output null.                       *)
(*  - A float is a fixed-point integer in units of 1/Unit; all float       *)
(*    inputs are finite (no NaN, no infinity).                             *)
(*  - A material colour component n stands for the float n / 255.0f.       *)
(*  - Every Direct3D call that returns an HRESULT can fail; the input      *)
(*    `api` of an operation names the call that fails in it ("none" when   *)
(*    all succeed).                                                        *)
(*  - logCalls is the sequence of Log(message, severity) calls of the      *)
(*    last operation, gpuCalls its Direct3D commands, faults the accesses  *)
(*    with undefined behaviour it made; lastCall is the operation, its     *)
(*    arguments and its return value.                                      *)
(*  - memoryLow: the heap of the process is exhausted, so that an          *)
(*    allocation (operator new, std::string, std::vector::resize) can      *)
(*    throw std::bad_alloc.                                                *)
(***************************************************************************)
EXTENDS Integers, Sequences, FiniteSets, TLC

VARIABLES g_renderer, g_logCallback, debugBuild, memoryLow, lastCall, logCalls, delivered, gpuCalls, faults, crashed

vars == <<g_renderer, g_logCallback, debugBuild, memoryLow, lastCall, logCalls, delivered, gpuCalls, faults, crashed>>

\* ------------------------------------------------------------------
\* Logger.h
LOG_INFO == 0
LOG_WARNING == 1
LOG_ERROR == 2

\* One Log(message, severity) call.
L(msg, sev) == <<[msg |-> msg, sev |-> sev]>>

Null == <<>>

\* ------------------------------------------------------------------
\* float arithmetic, fixed point
Unit == 1000

F_0_1 == Unit \div 10
F_0_5 == Unit \div 2
F_2 == 2 * Unit
F_10 == 10 * Unit

\* DirectXMath: XM_PIDIV2 = 1.570796327f, XM_PI = 3.141592654f
XM_PIDIV2 == 1571
XM_PI == 3142
XM_2PI == 6283

\* windows.h: #define max(a,b) (((a) > (b)) ? (a) : (b))
max(a, b) == IF a > b THEN a ELSE b

\* windows.h: #define min(a,b) (((a) < (b)) ? (a) : (b))
min(a, b) == IF a < b THEN a ELSE b

Abs(x) == IF x < 0 THEN -x ELSE x

Sgn(x) == IF x < 0 THEN -1 ELSE 1

\* a * b on floats, rounded toward zero to the fixed-point grid
FMul(a, b) == Sgn(a) * Sgn(b) * ((Abs(a) * Abs(b)) \div Unit)

\* x reduced to [-pi, pi)
Reduce(x) == ((x + XM_PI) % XM_2PI) - XM_PI

\* sin on [0, pi/2], Taylor polynomial of degree 7
SinPoly(a) ==
    LET a2 == FMul(a, a)
        a3 == FMul(a2, a)
        a5 == FMul(a3, a2)
        a7 == FMul(a5, a2)
    IN a - (a3 \div 6) + (a5 \div 120) - (a7 \div 5040)

\* cos on [0, pi/2], Taylor polynomial of degree 6
CosPoly(a) ==
    LET a2 == FMul(a, a)
        a4 == FMul(a2, a2)
        a6 == FMul(a4, a2)
    IN Unit - (a2 \div 2) + (a4 \div 24) - (a6 \div 720)

\* sin(x): sin(0) = 0, odd, sin(pi - x) = sin(x)
sin(x) ==
    LET y == Reduce(x)
        a == Abs(y)
        b == IF a > XM_PIDIV2 THEN XM_PI - a ELSE a
    IN Sgn(y) * min(Unit, SinPoly(b))

\* cos(x): cos(0) = 1, even, cos(pi - x) = -cos(x)
cos(x) ==
    LET a == Abs(Reduce(x))
    IN IF a > XM_PIDIV2 THEN -min(Unit, max(0, CosPoly(XM_PI - a)))
       ELSE min(Unit, max(0, CosPoly(a)))

\* ------------------------------------------------------------------
\* VolumeRenderer: construction

\* The value of an int member the constructor does not initialise.
IndeterminateInts == {0, -1}

\* XMFLOAT4(0, 0, 0, 0)
Transparent == <<0, 0, 0, 0>>

MaterialCount == 256

\* std::vector<XMFLOAT4>: its size, and its entries other than (0, 0, 0, 0)
\* (index i of the vector is entry i + 1 here).
NoMaterials == [size |-> 0, nz |-> <<>>]

\* m[i]
MatAt(m, i) == IF i \in DOMAIN m.nz THEN m.nz[i] ELSE Transparent

\* The vector whose entries are f[1] .. f[size]
MatVector(size, f) == [size |-> size, nz |-> [i \in {j \in 1..size : f[j] # Transparent} |-> f[i]]]

\* A constructor that assigns no camera member: like m_width and m_height they
\* hold whatever the storage held
VolumeRenderer_noCamera(u) ==
    [ m_device |-> Null, m_context |-> Null, m_swapChain |-> Null,
      m_renderTargetView |-> Null, m_depthStencilView |-> Null,
      m_vertexShader |-> Null, m_pixelShader |-> Null, m_inputLayout |-> Null,
      m_vertexBuffer |-> Null, m_indexBuffer |-> Null, m_constantBuffer |-> Null,
      m_materialBuffer |-> Null, m_materialSRV |-> Null,
      m_volumeTexture |-> Null, m_volumeSRV |-> Null,
      m_labelTexture |-> Null, m_labelSRV |-> Null, m_volumeSampler |-> Null,
      m_volumeWidth |-> 0, m_volumeHeight |-> 0, m_volumeDepth |-> 0,
      m_voxelSize |-> Unit,
      m_width |-> u, m_height |-> u,
      m_cameraPosition |-> <<u, u, u>>,
      m_focusPoint |-> <<u, u, u>>,
      m_upVector |-> <<u, u, u>>,
      m_cameraTheta |-> u, m_cameraPhi |-> u, m_cameraRadius |-> u,
      m_opacity |-> Unit \div 20, m_brightness |-> 0, m_contrast |-> Unit,
      m_renderMode |-> 0, m_showLabels |-> TRUE,
      m_materials |-> NoMaterials ]

\* VolumeRenderer::VolumeRenderer(): every ComPtr is null, the vector is empty,
\* m_width and m_height are not assigned (u is the value they happen to hold).
VolumeRenderer(u) ==
    [ m_device |-> Null, m_context |-> Null, m_swapChain |-> Null,
      m_renderTargetView |-> Null, m_depthStencilView |-> Null,
      m_vertexShader |-> Null, m_pixelShader |-> Null, m_inputLayout |-> Null,
      m_vertexBuffer |-> Null, m_indexBuffer |-> Null, m_constantBuffer |-> Null,
      m_materialBuffer |-> Null, m_materialSRV |-> Null,
      m_volumeTexture |-> Null, m_volumeSRV |-> Null,
      m_labelTexture |-> Null, m_labelSRV |-> Null, m_volumeSampler |-> Null,
      m_volumeWidth |-> 0, m_volumeHeight |-> 0, m_volumeDepth |-> 0,
      m_voxelSize |-> Unit,
      m_width |-> u, m_height |-> u,
      m_cameraPosition |-> <<0, 0, -F_2>>,
      m_focusPoint |-> <<0, 0, 0>>,
      m_upVector |-> <<0, Unit, 0>>,
      m_cameraTheta |-> 0, m_cameraPhi |-> 0, m_cameraRadius |-> F_2,
      m_opacity |-> Unit \div 20, m_brightness |-> 0, m_contrast |-> Unit,
      m_renderMode |-> 0, m_showLabels |-> TRUE,
      m_materials |-> NoMaterials ]

VolumeRenderer_ctor_log == L("VolumeRenderer constructor called", LOG_INFO)

\* ------------------------------------------------------------------
\* VolumeRenderer: camera

\* focus + radius * (cos(phi) sin(theta), sin(phi), cos(phi) cos(theta))
OrbitPosition(focus, radius, theta, phi) ==
    << focus[1] + FMul(FMul(radius, cos(phi)), sin(theta)),
       focus[2] + FMul(radius, sin(phi)),
       focus[3] + FMul(FMul(radius, cos(phi)), cos(theta)) >>

PHI_MIN == -XM_PIDIV2 + F_0_1
PHI_MAX == XM_PIDIV2 - F_0_1

\* The phi clamp without its upper limit
ClampPhi_noUpper(phi) == max(PHI_MIN, phi)

\* m_cameraPhi = max(-XM_PIDIV2 + 0.1f, min(XM_PIDIV2 - 0.1f, m_cameraPhi))
ClampPhi(phi) == max(PHI_MIN, min(PHI_MAX, phi))

\* The radius clamp without its lower limit
ClampRadius_noLower(radius) == min(F_10, radius)

\* m_cameraRadius = max(0.5f, min(10.0f, m_cameraRadius))
ClampRadius(radius) == max(F_0_5, min(F_10, radius))

\* VolumeRenderer::RotateCamera
VR_RotateCamera(r, deltaX, deltaY) ==
    LET theta == r.m_cameraTheta + deltaX
        phi == ClampPhi(r.m_cameraPhi + deltaY)
        r1 == [r EXCEPT !.m_cameraTheta = theta, !.m_cameraPhi = phi,
                        !.m_cameraPosition = OrbitPosition(r.m_focusPoint, r.m_cameraRadius, theta, phi)]
    IN [r |-> r1, log |-> L("Camera rotated to theta: %f, phi: %f, radius: %f", LOG_INFO)]

\* VolumeRenderer::ZoomCamera
VR_ZoomCamera(r, delta) ==
    LET r1 == [r EXCEPT !.m_cameraRadius = ClampRadius(r.m_cameraRadius - delta)]
        s == VR_RotateCamera(r1, 0, 0)
    IN [r |-> s.r, log |-> s.log \o L("Camera zoomed to radius: %f", LOG_INFO)]

\* ResetCamera without the reassignment of the radius
VR_ResetCamera_keepRadius(r) ==
    [r |-> [r EXCEPT !.m_cameraPosition = <<0, 0, -F_2>>,
                     !.m_focusPoint = <<0, 0, 0>>,
                     !.m_upVector = <<0, Unit, 0>>,
                     !.m_cameraTheta = 0, !.m_cameraPhi = 0],
     log |-> L("Resetting camera to default position", LOG_INFO)]

\* VolumeRenderer::ResetCamera
VR_ResetCamera(r) ==
    [r |-> [r EXCEPT !.m_cameraPosition = <<0, 0, -F_2>>,
                     !.m_focusPoint = <<0, 0, 0>>,
                     !.m_upVector = <<0, Unit, 0>>,
                     !.m_cameraTheta = 0, !.m_cameraPhi = 0, !.m_cameraRadius = F_2],
     log |-> L("Resetting camera to default position", LOG_INFO)]

\* ------------------------------------------------------------------
\* Direct3D objects

Obj(kind) == <<[kind |-> kind]>>

Sized(kind, w, h) == <<[kind |-> kind, width |-> w, height |-> h]>>

\* The Direct3D calls of Initialize that return an HRESULT, in call order.
InitApiCalls ==
    << "D3D11CreateDeviceAndSwapChain", "GetBuffer", "CreateRenderTargetView",
       "CreateTexture2D", "CreateDepthStencilView",
       "D3DCompileFromFile(VertexShader.hlsl)", "CreateVertexShader", "CreateInputLayout",
       "D3DCompileFromFile(PixelShader.hlsl)", "CreatePixelShader",
       "CreateBuffer(constant)", "CreateBuffer(material)", "CreateShaderResourceView(material)",
       "CreateSamplerState", "CreateBuffer(vertex)", "CreateBuffer(index)" >>

Range(f) == {f[i] : i \in DOMAIN f}

\* A device creation that makes its second attempt after any failure of the
\* first, whether or not the first requested the debug layer
CreateDeviceAndSwapChain_alwaysRetry(r, hwnd, debug, retryOk, api) ==
    LET pre == (IF debug THEN L("CreateDeviceAndSwapChain called", LOG_INFO) \o L("Enabling DirectX debug layer", LOG_INFO)
                ELSE L("CreateDeviceAndSwapChain called", LOG_INFO))
               \o L("Requested swap chain dimensions: %dx%d", LOG_INFO)
        made(flagDebug) ==
            [r EXCEPT !.m_swapChain = <<[kind |-> "IDXGISwapChain", width |-> r.m_width, height |-> r.m_height, hwnd |-> hwnd]>>,
                      !.m_device = <<[kind |-> "ID3D11Device", debug |-> flagDebug]>>,
                      !.m_context = <<[kind |-> "ID3D11DeviceContext", viewport |-> Null]>>]
    IN IF api # "D3D11CreateDeviceAndSwapChain"
         THEN [r |-> made(debug), log |-> pre \o L("Device created with feature level %s", LOG_INFO),
               ret |-> TRUE, attempts |-> 1]
       ELSE IF retryOk
         THEN [r |-> made(FALSE), ret |-> TRUE, attempts |-> 2,
               log |-> pre \o L("D3D11CreateDeviceAndSwapChain failed, HRESULT: 0x%08X", LOG_ERROR)
                           \o L("Retrying without debug layer", LOG_INFO)
                           \o L("Device created successfully without debug layer", LOG_INFO)
                           \o L("Device created with feature level %s", LOG_INFO)]
       ELSE [r |-> [r EXCEPT !.m_swapChain = Null, !.m_device = Null, !.m_context = Null],
             ret |-> FALSE, attempts |-> 2,
             log |-> pre \o L("D3D11CreateDeviceAndSwapChain failed, HRESULT: 0x%08X", LOG_ERROR)
                         \o L("Retrying without debug layer", LOG_INFO)
                         \o L("Second attempt failed, HRESULT: 0x%08X", LOG_ERROR)]

\* VolumeRenderer::CreateDeviceAndSwapChain. debug: the build defines _DEBUG;
\* the first attempt fails when api names the call; retryOk: the attempt
\* without the debug layer, made only in a debug build, succeeds.
CreateDeviceAndSwapChain(r, hwnd, debug, retryOk, api) ==
    LET pre == (IF debug THEN L("CreateDeviceAndSwapChain called", LOG_INFO) \o L("Enabling DirectX debug layer", LOG_INFO)
                ELSE L("CreateDeviceAndSwapChain called", LOG_INFO))
               \o L("Requested swap chain dimensions: %dx%d", LOG_INFO)
        none == [r EXCEPT !.m_swapChain = Null, !.m_device = Null, !.m_context = Null]
        made(flagDebug) ==
            [r EXCEPT !.m_swapChain = <<[kind |-> "IDXGISwapChain", width |-> r.m_width, height |-> r.m_height, hwnd |-> hwnd]>>,
                      !.m_device = <<[kind |-> "ID3D11Device", debug |-> flagDebug]>>,
                      !.m_context = <<[kind |-> "ID3D11DeviceContext", viewport |-> Null]>>]
        failed == L("D3D11CreateDeviceAndSwapChain failed, HRESULT: 0x%08X", LOG_ERROR)
        done == L("Device created with feature level %s", LOG_INFO)
    IN IF api # "D3D11CreateDeviceAndSwapChain"
         THEN [r |-> made(debug), log |-> pre \o done, ret |-> TRUE, attempts |-> 1]
       ELSE IF debug
         THEN IF retryOk
                THEN [r |-> made(FALSE), ret |-> TRUE, attempts |-> 2,
                      log |-> pre \o failed \o L("Retrying without debug layer", LOG_INFO)
                                  \o L("Device created successfully without debug layer", LOG_INFO)
                                  \o done]
                ELSE [r |-> none, ret |-> FALSE, attempts |-> 2,
                      log |-> pre \o failed \o L("Retrying without debug layer", LOG_INFO)
                                  \o L("Second attempt failed, HRESULT: 0x%08X", LOG_ERROR)]
       ELSE [r |-> none, ret |-> FALSE, attempts |-> 1, log |-> pre \o failed]

\* VolumeRenderer::CreateRenderTargetView
CreateRenderTargetView(r, api) ==
    LET pre == L("CreateRenderTargetView called", LOG_INFO)
    IN IF api = "GetBuffer"
         THEN [r |-> r, ret |-> FALSE, log |-> pre \o L("Failed to get back buffer, HRESULT: 0x%08X", LOG_ERROR)]
       ELSE IF api = "CreateRenderTargetView"
         THEN [r |-> [r EXCEPT !.m_renderTargetView = Null], ret |-> FALSE,
               log |-> pre \o L("Back buffer dimensions: %dx%d", LOG_INFO)
                           \o L("CreateRenderTargetView failed, HRESULT: 0x%08X", LOG_ERROR)]
       ELSE [r |-> [r EXCEPT !.m_renderTargetView =
                        Sized("ID3D11RenderTargetView", r.m_swapChain[1].width, r.m_swapChain[1].height)],
             ret |-> TRUE,
             log |-> pre \o L("Back buffer dimensions: %dx%d", LOG_INFO)
                         \o L("Render target view created successfully", LOG_INFO)]

\* VolumeRenderer::CreateDepthStencilView
CreateDepthStencilView(r, width, height, api) ==
    LET pre == L("CreateDepthStencilView called: %dx%d", LOG_INFO)
    IN IF api = "CreateTexture2D"
         THEN [r |-> r, ret |-> FALSE,
               log |-> pre \o L("CreateTexture2D for depth stencil failed, HRESULT: 0x%08X", LOG_ERROR)]
       ELSE IF api = "CreateDepthStencilView"
         THEN [r |-> [r EXCEPT !.m_depthStencilView = Null], ret |-> FALSE,
               log |-> pre \o L("CreateDepthStencilView failed, HRESULT: 0x%08X", LOG_ERROR)]
       ELSE [r |-> [r EXCEPT !.m_depthStencilView = Sized("ID3D11DepthStencilView", width, height)],
             ret |-> TRUE,
             log |-> pre \o L("Depth stencil view created successfully", LOG_INFO)]

\* A SetupViewport that logs and sets no viewport
SetupViewport_none(r, width, height) == [r |-> r, log |-> L("SetupViewport: %dx%d", LOG_INFO)]

\* VolumeRenderer::SetupViewport: m_context->RSSetViewports
SetupViewport(r, width, height) ==
    [r |-> [r EXCEPT !.m_context = <<[r.m_context[1] EXCEPT !.viewport = <<width, height>>]>>],
     log |-> L("SetupViewport: %dx%d", LOG_INFO)]

\* The shader compiler's diagnostic text, logged when there is one.
CompileErrorLog == L("Shader compilation error:", LOG_ERROR) \o L("(errorBlob)", LOG_ERROR)

\* VolumeRenderer::CreateShaders. blob: a failing compilation returns an error blob.
CreateShaders(r, blob, api) ==
    LET l0 == L("CreateShaders called", LOG_INFO) \o L("Compiling vertex shader...", LOG_INFO)
        l1 == l0 \o L("Creating input layout...", LOG_INFO)
        l2 == l1 \o L("Compiling pixel shader...", LOG_INFO)
        r1 == [r EXCEPT !.m_vertexShader = Obj("ID3D11VertexShader")]
        r2 == [r1 EXCEPT !.m_inputLayout = Obj("ID3D11InputLayout")]
        r3 == [r2 EXCEPT !.m_pixelShader = Obj("ID3D11PixelShader")]
    IN IF api = "D3DCompileFromFile(VertexShader.hlsl)"
         THEN [r |-> r, ret |-> FALSE,
               log |-> l0 \o L("Vertex shader compilation failed, HRESULT: 0x%08X", LOG_ERROR)
                          \o (IF blob THEN CompileErrorLog ELSE <<>>)]
       ELSE IF api = "CreateVertexShader"
         THEN [r |-> [r EXCEPT !.m_vertexShader = Null], ret |-> FALSE,
               log |-> l0 \o L("CreateVertexShader failed, HRESULT: 0x%08X", LOG_ERROR)]
       ELSE IF api = "CreateInputLayout"
         THEN [r |-> [r1 EXCEPT !.m_inputLayout = Null], ret |-> FALSE,
               log |-> l1 \o L("CreateInputLayout failed, HRESULT: 0x%08X", LOG_ERROR)]
       ELSE IF api = "D3DCompileFromFile(PixelShader.hlsl)"
         THEN [r |-> r2, ret |-> FALSE,
               log |-> l2 \o L("Pixel shader compilation failed, HRESULT: 0x%08X", LOG_ERROR)
                          \o (IF blob THEN CompileErrorLog ELSE <<>>)]
       ELSE IF api = "CreatePixelShader"
         THEN [r |-> [r2 EXCEPT !.m_pixelShader = Null], ret |-> FALSE,
               log |-> l2 \o L("CreatePixelShader failed, HRESULT: 0x%08X", LOG_ERROR)]
       ELSE [r |-> r3, ret |-> TRUE, log |-> l2 \o L("Shaders created successfully", LOG_INFO)]

\* m_materials.resize(256, XMFLOAT4(0, 0, 0, 0)): keeps the entries it has
Resize256(m) == MatVector(MaterialCount, [i \in 1..MaterialCount |-> IF i <= m.size THEN MatAt(m, i) ELSE Transparent])

\* VolumeRenderer::CreateConstantBuffers
CreateConstantBuffers(r, api) ==
    LET l0 == L("CreateConstantBuffers called", LOG_INFO)
        r1 == [r EXCEPT !.m_constantBuffer = Obj("ID3D11Buffer(constant)")]
        r2 == [r1 EXCEPT !.m_materials = Resize256(r.m_materials)]
        r3 == [r2 EXCEPT !.m_materialBuffer = <<[kind |-> "ID3D11Buffer(material)", data |-> r2.m_materials]>>]
        r4 == [r3 EXCEPT !.m_materialSRV = <<[kind |-> "ID3D11ShaderResourceView(material)", numElements |-> MaterialCount]>>]
    IN IF api = "CreateBuffer(constant)"
         THEN [r |-> [r EXCEPT !.m_constantBuffer = Null], ret |-> FALSE,
               log |-> l0 \o L("CreateBuffer for constant buffer failed, HRESULT: 0x%08X", LOG_ERROR)]
       ELSE IF api = "m_materials.resize(256): std::bad_alloc"
         THEN [r |-> r1, ret |-> FALSE, log |-> l0]
       ELSE IF api = "CreateBuffer(material)"
         THEN [r |-> [r2 EXCEPT !.m_materialBuffer = Null], ret |-> FALSE,
               log |-> l0 \o L("CreateBuffer for material buffer failed, HRESULT: 0x%08X", LOG_ERROR)]
       ELSE IF api = "CreateShaderResourceView(material)"
         THEN [r |-> [r3 EXCEPT !.m_materialSRV = Null], ret |-> FALSE,
               log |-> l0 \o L("CreateShaderResourceView for material buffer failed, HRESULT: 0x%08X", LOG_ERROR)]
       ELSE [r |-> r4, ret |-> TRUE, log |-> l0 \o L("Constant buffers created successfully", LOG_INFO)]

\* A CreateSamplers that releases the device, the context and the swap chain
\* when it fails
CreateSamplers_rollback(r, api) ==
    LET l0 == L("CreateSamplers called", LOG_INFO)
    IN IF api = "CreateSamplerState"
         THEN [r |-> [r EXCEPT !.m_volumeSampler = Null, !.m_swapChain = Null, !.m_context = Null,
                               !.m_device = Null],
               ret |-> FALSE,
               log |-> l0 \o L("CreateSamplerState failed, HRESULT: 0x%08X", LOG_ERROR)]
       ELSE [r |-> [r EXCEPT !.m_volumeSampler = Obj("ID3D11SamplerState")], ret |-> TRUE,
             log |-> l0 \o L("Samplers created successfully", LOG_INFO)]

\* VolumeRenderer::CreateSamplers
CreateSamplers(r, api) ==
    LET l0 == L("CreateSamplers called", LOG_INFO)
    IN IF api = "CreateSamplerState"
         THEN [r |-> [r EXCEPT !.m_volumeSampler = Null], ret |-> FALSE,
               log |-> l0 \o L("CreateSamplerState failed, HRESULT: 0x%08X", LOG_ERROR)]
       ELSE [r |-> [r EXCEPT !.m_volumeSampler = Obj("ID3D11SamplerState")], ret |-> TRUE,
             log |-> l0 \o L("Samplers created successfully", LOG_INFO)]

\* ------------------------------------------------------------------
\* VolumeRenderer::Initialize. Each result is [r, log, ret].

\* lines 152-207: the cube's vertex and index buffers
CreateCubeBuffers(r, api) ==
    LET l0 == L("Creating vertex and index buffers...", LOG_INFO)
        r1 == [r EXCEPT !.m_vertexBuffer = <<[kind |-> "ID3D11Buffer(vertex)", vertices |-> 8]>>]
        r2 == [r1 EXCEPT !.m_indexBuffer = <<[kind |-> "ID3D11Buffer(index)", indices |-> 36]>>]
    IN IF api = "CreateBuffer(vertex)"
         THEN [r |-> [r EXCEPT !.m_vertexBuffer = Null], ret |-> FALSE,
               log |-> l0 \o L("Failed to create vertex buffer, HRESULT: 0x%08X", LOG_ERROR)]
       ELSE IF api = "CreateBuffer(index)"
         THEN [r |-> [r1 EXCEPT !.m_indexBuffer = Null], ret |-> FALSE,
               log |-> l0 \o L("Failed to create index buffer, HRESULT: 0x%08X", LOG_ERROR)]
       ELSE [r |-> r2, ret |-> TRUE,
             log |-> l0 \o L("Vertex and index buffers created successfully", LOG_INFO)]

\* lines 136-215: constant buffers, samplers, cube buffers, default materials
InitializeTail(r, api) ==
    LET cb == CreateConstantBuffers(r, api)
        l1 == L("Creating constant buffers...", LOG_INFO) \o cb.log
    IN IF ~cb.ret THEN [r |-> cb.r, ret |-> FALSE, log |-> l1 \o L("Failed to create constant buffers", LOG_ERROR)]
       ELSE
    LET sm == CreateSamplers(cb.r, api)
        l2 == l1 \o L("Constant buffers created successfully", LOG_INFO)
                 \o L("Creating samplers...", LOG_INFO) \o sm.log
    IN IF ~sm.ret THEN [r |-> sm.r, ret |-> FALSE, log |-> l2 \o L("Failed to create samplers", LOG_ERROR)]
       ELSE
    LET cu == CreateCubeBuffers(sm.r, api)
        l3 == l2 \o L("Samplers created successfully", LOG_INFO) \o cu.log
    IN IF ~cu.ret THEN [r |-> cu.r, ret |-> FALSE, log |-> l3]
       ELSE [r |-> [cu.r EXCEPT !.m_materials = Resize256(cu.r.m_materials)], ret |-> TRUE,
             log |-> l3 \o L("Initializing default materials...", LOG_INFO)
                        \o L("VolumeRenderer initialized successfully", LOG_INFO)]

\* lines 100-134, then the tail
InitializeDevice(r, hwnd, width, height, debug, retryOk, blob, api) ==
    LET dv == CreateDeviceAndSwapChain(r, hwnd, debug, retryOk, api)
        l1 == L("Creating device and swap chain...", LOG_INFO) \o dv.log
    IN IF ~dv.ret THEN [r |-> dv.r, ret |-> FALSE, log |-> l1 \o L("Failed to create device and swap chain", LOG_ERROR)]
       ELSE
    LET rt == CreateRenderTargetView(dv.r, api)
        l2 == l1 \o L("Device and swap chain created successfully", LOG_INFO)
                 \o L("Creating render target view...", LOG_INFO) \o rt.log
    IN IF ~rt.ret THEN [r |-> rt.r, ret |-> FALSE, log |-> l2 \o L("Failed to create render target view", LOG_ERROR)]
       ELSE
    LET ds == CreateDepthStencilView(rt.r, width, height, api)
        l3 == l2 \o L("Render target view created successfully", LOG_INFO)
                 \o L("Creating depth stencil view...", LOG_INFO) \o ds.log
    IN IF ~ds.ret THEN [r |-> ds.r, ret |-> FALSE, log |-> l3 \o L("Failed to create depth stencil view", LOG_ERROR)]
       ELSE
    LET vp == SetupViewport(ds.r, width, height)
        sh == CreateShaders(vp.r, blob, api)
        l4 == l3 \o L("Depth stencil view created successfully", LOG_INFO)
                 \o L("Setting up viewport...", LOG_INFO) \o vp.log
                 \o L("Creating shaders and input layout...", LOG_INFO) \o sh.log
    IN IF ~sh.ret THEN [r |-> sh.r, ret |-> FALSE, log |-> l4 \o L("Failed to create shaders", LOG_ERROR)]
       ELSE
    LET tl == InitializeTail(sh.r, api)
    IN [r |-> tl.r, ret |-> tl.ret,
        log |-> l4 \o L("Shaders and input layout created successfully", LOG_INFO) \o tl.log]

\* VolumeRenderer::Initialize
VR_Initialize(r, hwnd, width, height, debug, retryOk, blob, api) ==
    LET l0 == L("VolumeRenderer::Initialize started", LOG_INFO)
              \o L("Window handle: 0x%p, Dimensions: %dx%d", LOG_INFO)
    IN IF hwnd = 0
         THEN [r |-> r, ret |-> FALSE, log |-> l0 \o L("Invalid window handle", LOG_ERROR)]
       ELSE IF width <= 0 \/ height <= 0
         THEN [r |-> r, ret |-> FALSE, log |-> l0 \o L("Invalid dimensions: %dx%d", LOG_ERROR)]
       ELSE LET s == InitializeDevice([r EXCEPT !.m_width = width, !.m_height = height],
                                      hwnd, width, height, debug, retryOk, blob, api)
            IN [r |-> s.r, ret |-> s.ret, log |-> l0 \o s.log]

\* ------------------------------------------------------------------
\* VolumeRenderer::Shutdown. Each result is [r, log, gpu].

\* The ComPtr members in the order Shutdown resets them (lines 229-245).
ShutdownOrder ==
    << "m_materialBuffer", "m_constantBuffer", "m_indexBuffer", "m_vertexBuffer",
       "m_volumeSampler", "m_labelSRV", "m_labelTexture", "m_volumeSRV", "m_volumeTexture",
       "m_inputLayout", "m_pixelShader", "m_vertexShader", "m_depthStencilView",
       "m_renderTargetView", "m_swapChain", "m_context", "m_device" >>

\* Every ComPtr member, in declaration order (VolumeRenderer.h lines 40-59).
ComPtrMembers ==
    << "m_device", "m_context", "m_swapChain", "m_renderTargetView", "m_depthStencilView",
       "m_vertexShader", "m_pixelShader", "m_inputLayout", "m_vertexBuffer", "m_indexBuffer",
       "m_constantBuffer", "m_materialBuffer", "m_materialSRV",
       "m_volumeTexture", "m_volumeSRV", "m_labelTexture", "m_labelSRV", "m_volumeSampler" >>

\* r with the members named in `names` reset to null
ResetAll(r, names) == [f \in DOMAIN r |-> IF f \in names THEN Null ELSE r[f]]

\* The Release calls resetting `order` makes on r: one per member that holds an object.
Releases(r, order) ==
    LET held == SelectSeq(order, LAMBDA f : r[f] # Null)
    IN [i \in 1..Len(held) |-> [call |-> "Release", arg |-> held[i], null |-> FALSE]]

\* One Direct3D command: the call, the member (or slot) it is given, whether that
\* handle is null.
G(call, arg, isNull) == <<[call |-> call, arg |-> arg, null |-> isNull]>>

VR_Shutdown(r) ==
    LET hasCtx == r.m_context # Null
    IN [r |-> ResetAll(r, Range(ShutdownOrder)),
        log |-> L("VolumeRenderer::Shutdown called", LOG_INFO)
                \o (IF hasCtx THEN L("Clearing device context state", LOG_INFO) ELSE <<>>)
                \o L("Releasing DirectX resources", LOG_INFO)
                \o L("VolumeRenderer shutdown complete", LOG_INFO),
        gpu |-> (IF hasCtx THEN G("ClearState", "m_context", FALSE) \o G("Flush", "m_context", FALSE) ELSE <<>>)
                \o Releases(r, ShutdownOrder)]

\* The destructor body alone, the members' destructors left out
VR_Destroy_noMembers(r) ==
    LET s == VR_Shutdown(r)
    IN [log |-> L("VolumeRenderer destructor called", LOG_INFO) \o s.log, gpu |-> s.gpu]

\* VolumeRenderer::~VolumeRenderer, then the members' destructors, which run
\* in reverse declaration order.
VR_Destroy(r) ==
    LET s == VR_Shutdown(r)
        rev == [i \in 1..Len(ComPtrMembers) |-> ComPtrMembers[Len(ComPtrMembers) + 1 - i]]
    IN [log |-> L("VolumeRenderer destructor called", LOG_INFO) \o s.log,
        gpu |-> s.gpu \o Releases(s.r, rev)]

\* ------------------------------------------------------------------
\* Volume and label textures. data: 0 is the null pointer, otherwise the id
\* of a host buffer.

\* INT_MIN and INT_MAX of a 32-bit int
INT_MIN == -2147483647 - 1
INT_MAX == 2147483647

\* Byte i of the two's complement representation of n
Limb(n, i) == (n \div (256 ^ i)) % 256

\* Column k of the schoolbook product of the bytes of w and h
Column(w, h, k) ==
    LET term(i) == IF k - i \in 0..3 THEN Limb(w, i) * Limb(h, k - i) ELSE 0
    IN term(0) + term(1) + term(2) + term(3)

RECURSIVE Carry(_, _, _)
\* The carry into column k
Carry(w, h, k) == IF k = 0 THEN 0 ELSE (Column(w, h, k - 1) + Carry(w, h, k - 1)) \div 256

\* Byte k (0..7) of the exact product of two positive ints
ProductLimb(w, h, k) == (Column(w, h, k) + Carry(w, h, k)) % 256

\* The int that holds the low 32 bits of the product
Wrap32(w, h) ==
    LET top == ProductLimb(w, h, 3)
    IN (top - (IF top >= 128 THEN 256 ELSE 0)) * 16777216
       + ProductLimb(w, h, 2) * 65536 + ProductLimb(w, h, 1) * 256 + ProductLimb(w, h, 0)

\* The int product of two positive ints is above INT_MAX: signed overflow,
\* which the language leaves undefined
Overflows(w, h) == w > 0 /\ h > 0 /\ w > INT_MAX \div h

SignedOverflow == "signed overflow: m_volumeWidth * m_volumeHeight"

\* initialData.SysMemSlicePitch = m_volumeWidth * m_volumeHeight: an int
\* multiplication, whose result on overflow is the low 32 bits where the
\* process goes on; the UINT field takes the same bits
SlicePitch(w, h) == IF Overflows(w, h) THEN Wrap32(w, h) ELSE w * h

\* The CreateTexture3D call of a load on renderer r, with what it is handed;
\* none when the load returns before it
CreateTexture3DCall(r, member) ==
    IF r.m_device # Null /\ r.m_volumeWidth > 0 /\ r.m_volumeHeight > 0 /\ r.m_volumeDepth > 0
      THEN <<[call |-> "CreateTexture3D", arg |-> member, null |-> FALSE,
              data |-> [Width |-> r.m_volumeWidth, Height |-> r.m_volumeHeight, Depth |-> r.m_volumeDepth,
                        SysMemPitch |-> r.m_volumeWidth,
                        SysMemSlicePitch |-> SlicePitch(r.m_volumeWidth, r.m_volumeHeight)]]>>
    ELSE <<>>

\* The undefined operations of that call
CreateTexture3DFaults(r) ==
    IF r.m_device # Null /\ r.m_volumeDepth > 0 /\ Overflows(r.m_volumeWidth, r.m_volumeHeight)
      THEN {SignedOverflow} ELSE {}

Texture3D(r, data) ==
    <<[kind |-> "ID3D11Texture3D",
       width |-> r.m_volumeWidth, height |-> r.m_volumeHeight, depth |-> r.m_volumeDepth,
       rowPitch |-> r.m_volumeWidth, slicePitch |-> SlicePitch(r.m_volumeWidth, r.m_volumeHeight),
       pSysMem |-> data]>>

SRV3D(tex) == <<[kind |-> "ID3D11ShaderResourceView", of |-> tex[1]]>>

\* VolumeRenderer::CreateVolumeTexture
CreateVolumeTexture(r, data, api) ==
    LET l0 == L("CreateVolumeTexture called", LOG_INFO)
        l1 == l0 \o L("Creating 3D texture: %dx%dx%d", LOG_INFO)
        r1 == [r EXCEPT !.m_volumeTexture = Texture3D(r, data)]
    IN IF r.m_device = Null
         THEN [r |-> r, ret |-> FALSE, log |-> l0 \o L("Cannot create volume texture - device is null", LOG_ERROR)]
       ELSE IF r.m_volumeWidth <= 0 \/ r.m_volumeHeight <= 0 \/ r.m_volumeDepth <= 0
         THEN [r |-> r, ret |-> FALSE, log |-> l0 \o L("Invalid volume dimensions: %dx%dx%d", LOG_ERROR)]
       ELSE IF data = 0
         THEN [r |-> r, ret |-> FALSE, log |-> l0 \o L("Volume data pointer is null", LOG_ERROR)]
       ELSE IF api = "CreateTexture3D"
         THEN [r |-> [r EXCEPT !.m_volumeTexture = Null], ret |-> FALSE,
               log |-> l1 \o L("CreateTexture3D failed, HRESULT: 0x%08X", LOG_ERROR)]
       ELSE IF api = "CreateShaderResourceView"
         THEN [r |-> [r1 EXCEPT !.m_volumeSRV = Null], ret |-> FALSE,
               log |-> l1 \o L("CreateShaderResourceView failed, HRESULT: 0x%08X", LOG_ERROR)]
       ELSE [r |-> [r1 EXCEPT !.m_volumeSRV = SRV3D(r1.m_volumeTexture)], ret |-> TRUE,
             log |-> l1 \o L("Volume texture created successfully", LOG_INFO)]

\* VolumeRenderer::CreateLabelTexture
CreateLabelTexture(r, data, api) ==
    LET l0 == L("CreateLabelTexture called", LOG_INFO)
        l1 == l0 \o L("Creating 3D label texture: %dx%dx%d", LOG_INFO)
        r1 == [r EXCEPT !.m_labelTexture = Texture3D(r, data)]
    IN IF r.m_device = Null
         THEN [r |-> r, ret |-> FALSE, log |-> l0 \o L("Cannot create label texture - device is null", LOG_ERROR)]
       ELSE IF r.m_volumeWidth <= 0 \/ r.m_volumeHeight <= 0 \/ r.m_volumeDepth <= 0
         THEN [r |-> r, ret |-> FALSE, log |-> l0 \o L("Invalid volume dimensions: %dx%dx%d", LOG_ERROR)]
       ELSE IF data = 0
         THEN [r |-> r, ret |-> FALSE, log |-> l0 \o L("Label data pointer is null", LOG_ERROR)]
       ELSE IF api = "CreateTexture3D"
         THEN [r |-> [r EXCEPT !.m_labelTexture = Null], ret |-> FALSE,
               log |-> l1 \o L("CreateTexture3D for labels failed, HRESULT: 0x%08X", LOG_ERROR)]
       ELSE IF api = "CreateShaderResourceView"
         THEN [r |-> [r1 EXCEPT !.m_labelSRV = Null], ret |-> FALSE,
               log |-> l1 \o L("CreateShaderResourceView for labels failed, HRESULT: 0x%08X", LOG_ERROR)]
       ELSE [r |-> [r1 EXCEPT !.m_labelSRV = SRV3D(r1.m_labelTexture)], ret |-> TRUE,
             log |-> l1 \o L("Label texture created successfully", LOG_INFO)]

\* A load that keeps the volume already resident and reports success
VR_LoadVolumeData_keepFirst(r, data, width, height, depth, voxelSize, api) ==
    IF r.m_volumeTexture # Null
      THEN [r |-> r, ret |-> TRUE, log |-> L("LoadVolumeData: %dx%dx%d, voxel size: %f", LOG_INFO)]
    ELSE LET s == CreateVolumeTexture([r EXCEPT !.m_volumeWidth = width, !.m_volumeHeight = height,
                                                !.m_volumeDepth = depth, !.m_voxelSize = voxelSize], data, api)
         IN [r |-> s.r, ret |-> s.ret, log |-> s.log]

\* VolumeRenderer::LoadVolumeData
VR_LoadVolumeData(r, data, width, height, depth, voxelSize, api) ==
    LET l0 == L("LoadVolumeData: %dx%dx%d, voxel size: %f", LOG_INFO)
    IN IF data = 0
         THEN [r |-> r, ret |-> FALSE, log |-> l0 \o L("Volume data pointer is null", LOG_ERROR)]
       ELSE IF width <= 0 \/ height <= 0 \/ depth <= 0
         THEN [r |-> r, ret |-> FALSE, log |-> l0 \o L("Invalid volume dimensions: %dx%dx%d", LOG_ERROR)]
       ELSE LET r1 == [r EXCEPT !.m_volumeWidth = width, !.m_volumeHeight = height,
                                !.m_volumeDepth = depth, !.m_voxelSize = voxelSize]
                s == CreateVolumeTexture(r1, data, api)
            IN [r |-> s.r, ret |-> s.ret,
                log |-> l0 \o s.log \o (IF s.ret THEN L("Volume texture created successfully", LOG_INFO)
                                        ELSE L("Failed to create volume texture", LOG_ERROR))]

\* VolumeRenderer::LoadLabelData
VR_LoadLabelData(r, data, width, height, depth, api) ==
    LET l0 == L("LoadLabelData: %dx%dx%d", LOG_INFO)
    IN IF data = 0
         THEN [r |-> r, ret |-> FALSE, log |-> l0 \o L("Label data pointer is null", LOG_ERROR)]
       ELSE IF width <= 0 \/ height <= 0 \/ depth <= 0
         THEN [r |-> r, ret |-> FALSE, log |-> l0 \o L("Invalid label dimensions: %dx%dx%d", LOG_ERROR)]
       ELSE LET s == CreateLabelTexture(r, data, api)
            IN [r |-> s.r, ret |-> s.ret,
                log |-> l0 \o s.log \o (IF s.ret THEN L("Label texture created successfully", LOG_INFO)
                                        ELSE L("Failed to create label texture", LOG_ERROR))]

\* ------------------------------------------------------------------
\* Materials. colors: <<>> is the null pointer, otherwise <<a>> with a the
\* array of 32-bit signed ints the pointer addresses.

\* The shift without the & 0xFF mask
Byte_noMask(argb, shift) == argb \div (2 ^ shift)

\* (argb >> shift) & 0xFF on a signed 32-bit int: an arithmetic shift, then the low byte
Byte(argb, shift) == (argb \div (2 ^ shift)) % 256

\* XMFLOAT4(r, g, b, a) of a packed ARGB int, each channel n standing for n / 255.0f
UnpackARGB(argb) == <<Byte(argb, 16), Byte(argb, 8), Byte(argb, 0), Byte(argb, 24)>>

\* The count clamp without its upper limit
ClampCount_noUpper(count) == max(1, count)

\* count = min(256, max(1, count)), applied when count <= 0 or count > 256
ClampCount(count) == IF count <= 0 \/ count > MaterialCount THEN min(MaterialCount, max(1, count)) ELSE count

\* The loop running one entry too far (i <= count)
WriteMaterials_oneMore(m, a, count) ==
    MatVector(m.size, [i \in 1..m.size |-> IF i <= count + 1 /\ i <= Len(a) THEN UnpackARGB(a[i]) ELSE MatAt(m, i)])

\* lines 329-338: m_materials[i] = ... for i < count; an index the vector does
\* not have is not written (the access is out of bounds)
WriteMaterials(m, a, count) ==
    MatVector(m.size, [i \in 1..m.size |-> IF i <= count /\ i <= Len(a) THEN UnpackARGB(a[i]) ELSE MatAt(m, i)])

\* VolumeRenderer::UpdateMaterials. Each result is [r, log, faults].
VR_UpdateMaterials(r, colors, count, api) ==
    LET l0 == L("UpdateMaterials: count = %d", LOG_INFO)
    IN IF colors = Null
         THEN [r |-> r, log |-> l0 \o L("Colors pointer is null", LOG_ERROR), faults |-> {}]
       ELSE
    LET n == ClampCount(count)
        l1 == IF count <= 0 \/ count > MaterialCount
              THEN l0 \o L("Invalid color count: %d, clamping to 256", LOG_WARNING) ELSE l0
        r1 == [r EXCEPT !.m_materials = WriteMaterials(r.m_materials, colors[1], n)]
        flt == (IF n > r.m_materials.size THEN {"m_materials[i]: write out of bounds"} ELSE {})
               \cup (IF n > Len(colors[1]) THEN {"colors[i]: read out of bounds"} ELSE {})
    IN IF r.m_context # Null /\ r.m_materialBuffer # Null
         THEN IF api = "Map"
                THEN [r |-> r1, faults |-> flt,
                      log |-> l1 \o L("Updating material buffer on GPU", LOG_INFO)
                                 \o L("Failed to map material buffer, HRESULT: 0x%08X", LOG_ERROR)]
                ELSE [r |-> [r1 EXCEPT !.m_materialBuffer = <<[r.m_materialBuffer[1] EXCEPT !.data = r1.m_materials]>>],
                      faults |-> flt,
                      log |-> l1 \o L("Updating material buffer on GPU", LOG_INFO)
                                 \o L("Material buffer updated successfully", LOG_INFO)]
       ELSE [r |-> r1, faults |-> flt,
             log |-> l1 \o L("Cannot update materials - context or material buffer is null", LOG_ERROR)]

\* ------------------------------------------------------------------
\* Rendering

\* One Direct3D command carrying data
GD(call, arg, isNull, data) == <<[call |-> call, arg |-> arg, null |-> isNull, data |-> data]>>

\* static_cast<float>(m_width) / static_cast<float>(m_height); a zero divisor
\* gives an infinity or a NaN, written "inf"
AspectRatio(w, h) == IF h = 0 THEN <<"inf">> ELSE <<(w * Unit) \div h>>

\* VolumeRenderer::UpdateConstantBuffers. Each result is [log, gpu].
UpdateConstantBuffers(r, api) ==
    IF r.m_context = Null \/ r.m_constantBuffer = Null
      THEN [log |-> L("Cannot update constant buffers - context or buffer is null", LOG_ERROR), gpu |-> <<>>]
    ELSE
    LET cb == [cameraPosition |-> r.m_cameraPosition, focus |-> r.m_focusPoint, up |-> r.m_upVector,
               aspectRatio |-> AspectRatio(r.m_width, r.m_height)]
        params == [opacity |-> r.m_opacity, brightness |-> r.m_brightness, contrast |-> r.m_contrast,
                   renderMode |-> r.m_renderMode, volumeScale |-> <<Unit, Unit, Unit, Unit>>,
                   showLabels |-> IF r.m_showLabels THEN 1 ELSE 0]
        g1 == GD("UpdateSubresource", "m_constantBuffer", FALSE, cb)
        made == api # "CreateBuffer(renderParams)"
        g2 == IF made
                THEN GD("UpdateSubresource", "renderParamsBuffer", FALSE, params)
                     \o G("PSSetConstantBuffers(1)", "renderParamsBuffer", FALSE)
              ELSE <<>>
        l2 == IF made THEN <<>> ELSE L("Failed to create render params buffer, HRESULT: 0x%08X", LOG_ERROR)
    IN IF r.m_materialSRV # Null
         THEN [log |-> l2, gpu |-> g1 \o g2 \o G("PSSetShaderResources(2)", "m_materialSRV", FALSE)]
       ELSE [log |-> l2 \o L("Material shader resource view is null", LOG_WARNING), gpu |-> g1 \o g2]

\* The commands whose handle argument Direct3D does not allow to be null.
RequiresHandle == {"ClearRenderTargetView", "ClearDepthStencilView"}

NullFaults(gpu) == {gpu[i].call \o "(NULL)" : i \in {j \in DOMAIN gpu : gpu[j].null /\ gpu[j].call \in RequiresHandle}}

\* A Render without the test of the device, the context and the swap chain
VR_Render_unguarded(r, api) ==
    LET gpu == G("ClearRenderTargetView", "m_renderTargetView", r.m_renderTargetView = Null)
               \o G("DrawIndexed(36)", "m_context", r.m_context = Null)
               \o G("Present(1)", "m_swapChain", r.m_swapChain = Null)
    IN [log |-> <<>>, gpu |-> gpu, faults |-> NullFaults(gpu)]

\* A Render that presents before it draws
VR_Render_presentFirst(r, api) ==
    LET gpu == G("ClearRenderTargetView", "m_renderTargetView", r.m_renderTargetView = Null)
               \o G("Present(1)", "m_swapChain", r.m_swapChain = Null)
               \o G("DrawIndexed(36)", "m_context", r.m_context = Null)
    IN [log |-> <<>>, gpu |-> gpu, faults |-> NullFaults(gpu)]

\* VolumeRenderer::Render. Each result is [log, gpu, faults].
VR_Render(r, api) ==
    IF r.m_context = Null \/ r.m_device = Null \/ r.m_swapChain = Null
      THEN [log |-> L("Cannot render - DirectX resources not initialized", LOG_ERROR), gpu |-> <<>>, faults |-> {}]
    ELSE
    LET head == G("ClearRenderTargetView", "m_renderTargetView", r.m_renderTargetView = Null)
                \o G("ClearDepthStencilView", "m_depthStencilView", r.m_depthStencilView = Null)
                \o G("OMSetRenderTargets", "m_renderTargetView", r.m_renderTargetView = Null)
                \o G("IASetVertexBuffers", "m_vertexBuffer", r.m_vertexBuffer = Null)
                \o G("IASetIndexBuffer", "m_indexBuffer", r.m_indexBuffer = Null)
                \o G("IASetPrimitiveTopology", "TRIANGLELIST", FALSE)
                \o G("IASetInputLayout", "m_inputLayout", r.m_inputLayout = Null)
                \o G("VSSetShader", "m_vertexShader", r.m_vertexShader = Null)
        ucb == UpdateConstantBuffers(r, api)
        mid == G("VSSetConstantBuffers(0)", "m_constantBuffer", r.m_constantBuffer = Null)
               \o G("PSSetConstantBuffers(0)", "m_constantBuffer", r.m_constantBuffer = Null)
               \o G("PSSetShader", "m_pixelShader", r.m_pixelShader = Null)
        vol == IF r.m_volumeSRV # Null
                 THEN [gpu |-> G("PSSetShaderResources(0)", "m_volumeSRV", FALSE), log |-> <<>>]
               ELSE [gpu |-> <<>>, log |-> L("Volume shader resource view is null during render", LOG_WARNING)]
        lab == IF r.m_labelSRV # Null
                 THEN [gpu |-> G("PSSetShaderResources(1)", "m_labelSRV", FALSE), log |-> <<>>]
               ELSE [gpu |-> <<>>, log |-> L("Label shader resource view is null during render", LOG_INFO)]
        smp == IF r.m_volumeSampler # Null
                 THEN [gpu |-> G("PSSetSamplers(0)", "m_volumeSampler", FALSE), log |-> <<>>]
               ELSE [gpu |-> <<>>, log |-> L("Volume sampler is null during render", LOG_WARNING)]
        tail == G("DrawIndexed(36)", "m_context", FALSE) \o G("Present(1)", "m_swapChain", FALSE)
        gpu == head \o ucb.gpu \o mid \o vol.gpu \o lab.gpu \o smp.gpu \o tail
    IN [log |-> ucb.log \o vol.log \o lab.log \o smp.log
                \o (IF api = "Present" THEN L("SwapChain Present failed, HRESULT: 0x%08X", LOG_ERROR) ELSE <<>>),
        gpu |-> gpu, faults |-> NullFaults(gpu)]

\* A Resize that replaces the device
VR_Resize_newDevice(r, width, height, api) ==
    [r |-> [r EXCEPT !.m_device = <<[kind |-> "ID3D11Device", debug |-> ~r.m_device[1].debug]>>,
                     !.m_width = width, !.m_height = height],
     log |-> L("Resize called: %dx%d", LOG_INFO)]

\* A Resize that clears the stored size before it resizes the swap chain, and
\* stops there when ResizeBuffers fails
VR_Resize_clearsSize(r, width, height, api) ==
    LET l0 == L("Resize called: %dx%d", LOG_INFO)
    IN IF width <= 0 \/ height <= 0 \/ r.m_device = Null \/ r.m_swapChain = Null
         THEN [r |-> r, log |-> l0 \o L("Invalid resize dimensions: %dx%d", LOG_ERROR)]
       ELSE IF api # "none"
         THEN [r |-> [r EXCEPT !.m_width = 0, !.m_height = 0],
               log |-> l0 \o L("ResizeBuffers failed, HRESULT: 0x%08X", LOG_ERROR)]
       ELSE [r |-> [r EXCEPT !.m_width = width, !.m_height = height,
                             !.m_swapChain = <<[r.m_swapChain[1] EXCEPT !.width = width, !.height = height]>>],
             log |-> l0 \o L("Resize completed successfully", LOG_INFO)]

\* VolumeRenderer::Resize. Each result is [r, log].
VR_Resize(r, width, height, api) ==
    LET l0 == L("Resize called: %dx%d", LOG_INFO)
    IN IF width <= 0 \/ height <= 0
         THEN [r |-> r, log |-> l0 \o L("Invalid resize dimensions: %dx%d", LOG_ERROR)]
       ELSE IF r.m_device = Null \/ r.m_swapChain = Null
         THEN [r |-> r, log |-> l0 \o L("Cannot resize - device or swap chain is null", LOG_ERROR)]
       ELSE
    LET r1 == [r EXCEPT !.m_renderTargetView = Null, !.m_depthStencilView = Null]
        l1 == l0 \o L("Releasing render target and depth stencil", LOG_INFO)
                 \o L("Resizing swap chain buffers", LOG_INFO)
        r2 == [r1 EXCEPT !.m_swapChain = <<[r.m_swapChain[1] EXCEPT !.width = width, !.height = height]>>]
        l2 == l1 \o L("Recreating render target view", LOG_INFO)
        r3 == [r2 EXCEPT !.m_renderTargetView = Sized("ID3D11RenderTargetView", width, height)]
        l3 == l2 \o L("Recreating depth stencil view", LOG_INFO)
    IN IF api = "ResizeBuffers"
         THEN [r |-> r1, log |-> l1 \o L("ResizeBuffers failed, HRESULT: 0x%08X", LOG_ERROR)]
       ELSE IF api = "GetBuffer"
         THEN [r |-> r2, log |-> l2 \o L("GetBuffer failed, HRESULT: 0x%08X", LOG_ERROR)]
       ELSE IF api = "CreateRenderTargetView"
         THEN [r |-> r2, log |-> l2 \o L("CreateRenderTargetView failed, HRESULT: 0x%08X", LOG_ERROR)]
       ELSE
    LET ds == CreateDepthStencilView(r3, width, height, api)
    IN IF ~ds.ret
         THEN [r |-> ds.r, log |-> l3 \o ds.log \o L("Failed to recreate depth stencil view", LOG_ERROR)]
       ELSE LET vp == SetupViewport([ds.r EXCEPT !.m_width = width, !.m_height = height], width, height)
            IN [r |-> vp.r,
                log |-> l3 \o ds.log \o L("Updating viewport", LOG_INFO) \o vp.log
                           \o L("Resize completed successfully", LOG_INFO)]

\* The five setters without their clamps
VR_SetParams_unclamped(r, opacity, brightness, contrast, mode, show) ==
    [r EXCEPT !.m_opacity = opacity, !.m_brightness = brightness, !.m_contrast = contrast,
              !.m_renderMode = mode, !.m_showLabels = show]

\* VolumeRenderer::SetOpacity .. SetShowLabels, in the order SetRenderingParams calls them
VR_SetParams(r, opacity, brightness, contrast, mode, show) ==
    [r EXCEPT !.m_opacity = max(0, min(Unit, opacity)),
              !.m_brightness = max(-Unit, min(Unit, brightness)),
              !.m_contrast = max(F_0_1, min(5 * Unit, contrast)),
              !.m_renderMode = mode,
              !.m_showLabels = show]

\* ------------------------------------------------------------------
\* CTViewer.cpp: the C ABI

\* A Log that hands over the errors only
Log_errorsOnly(cb, calls) ==
    IF cb # 0 THEN SelectSeq([i \in 1..Len(calls) |-> [cb |-> cb, msg |-> calls[i].msg, sev |-> calls[i].sev]],
                             LAMBDA d : d.sev = LOG_ERROR)
    ELSE <<>>

\* Log(message, severity) for each call of `calls`: handed to the registered
\* callback, dropped when there is none (cb = 0).
Log(cb, calls) ==
    IF cb # 0 THEN [i \in 1..Len(calls) |-> [cb |-> cb, msg |-> calls[i].msg, sev |-> calls[i].sev]]
    ELSE <<>>

\* What one exported call leaves behind: the renderer g, the call's record, its
\* Log calls, its Direct3D commands and its undefined accesses. After an
\* undefined access the process may have died.
Returns(call, g, log, gpu, flt) ==
    /\ ~crashed
    /\ g_renderer' = g
    /\ lastCall' = call
    /\ logCalls' = log
    /\ delivered' = Log(g_logCallback, log)
    /\ gpuCalls' = gpu
    /\ faults' = flt
    /\ crashed' \in (IF flt = {} THEN {FALSE} ELSE BOOLEAN)
    /\ UNCHANGED <<g_logCallback, debugBuild, memoryLow>>

Void == <<>>

Bool(b) == <<b>>

Call(op, args, api, ret) == [op |-> op, args |-> args, api |-> api, ret |-> ret]

\* The calls that can be made to fail in an operation: none when it returns
\* before making any.
Reached(reach, Apis) == IF reach THEN Apis ELSE {"none"}

Compilations == {"D3DCompileFromFile(VertexShader.hlsl)", "D3DCompileFromFile(PixelShader.hlsl)"}

\* An outcome that is consulted only on some paths
Consulted(used) == IF used THEN BOOLEAN ELSE {FALSE}

\* An exception leaves the exported function and reaches the host
Propagated == "exception propagated to the host"

\* The allocations of the library that throw std::bad_alloc when they fail
AllocObject == "std::make_unique<VolumeRenderer>: std::bad_alloc"
AllocString == "std::string: std::bad_alloc"
AllocVector == "m_materials.resize(256): std::bad_alloc"

\* The outcomes of the allocations `points` of a call that reaches them
Allocations(reach, points) == IF memoryLow /\ reach THEN {"none"} \cup points ELSE {"none"}

\* catch (std::exception& e) { std::string msg = what + std::string(e.what());
\* Log(msg.c_str(), LOG_ERROR); return ret; }. again: building msg throws in
\* its turn, inside the handler, and that exception leaves the function.
Catch(what, ret, again) ==
    IF again THEN [ret |-> Void, log |-> <<>>, faults |-> {Propagated}]
    ELSE [ret |-> ret, log |-> L(what, LOG_ERROR), faults |-> {}]

\* The call op(args) in which the allocation exc throws, with the renderer g,
\* the log and the Direct3D commands as they are at that point
Thrown(op, args, exc, ret, again, what, g, log, gpu) ==
    LET c == Catch(what, ret, again)
    IN Returns(Call(op, args, exc, c.ret), g, log \o c.log, gpu, c.faults)

\* SetLogCallback
SetLogCallback(Callbacks) ==
    \E cb \in Callbacks :
        LET log == L("C++ logging callback initialized", LOG_INFO)
        IN /\ ~crashed
           /\ g_logCallback' = cb
           /\ lastCall' = Call("SetLogCallback", <<cb>>, "none", Void)
           /\ logCalls' = log
           /\ delivered' = Log(cb, log)
           /\ gpuCalls' = <<>>
           /\ faults' = {}
           /\ UNCHANGED <<g_renderer, debugBuild, memoryLow, crashed>>

\* Initialize from line 51 on: old is the destruction of the renderer that
\* g_renderer held ([log, gpu]), s the result of VolumeRenderer::Initialize on
\* the new object.
InitializeRenderer(hwnd, width, height, api, exc, again, u, old, s) ==
    LET l1 == L("Initialize DirectX renderer called", LOG_INFO)
              \o L("Creating VolumeRenderer instance", LOG_INFO) \o VolumeRenderer_ctor_log \o old.log
        gpu == old.gpu \o (IF s.r.m_device # Null
                             THEN G("D3D11CreateDeviceAndSwapChain", "m_device", FALSE) ELSE <<>>)
        g == IF exc = AllocString THEN <<VolumeRenderer(u)>> ELSE <<s.r>>
        log == IF exc = AllocString THEN l1
               ELSE IF exc = AllocVector
                 THEN l1 \o L("Initializing renderer with dimensions: ", LOG_INFO)
                         \o SubSeq(s.log, 1, Len(s.log) - 1)
               ELSE l1 \o L("Initializing renderer with dimensions: ", LOG_INFO)
                       \o s.log
                       \o (IF s.ret THEN L("DirectX renderer initialized successfully", LOG_INFO)
                           ELSE L("DirectX renderer initialization failed", LOG_ERROR))
    IN IF exc # "none"
         THEN Thrown("Initialize", <<hwnd, width, height>>, exc, Bool(FALSE), again,
                     "Exception during initialization: ", g, log, IF exc = AllocString THEN old.gpu ELSE gpu)
       ELSE Returns(Call("Initialize", <<hwnd, width, height>>, api, Bool(s.ret)), g, log, gpu, {})

\* Initialize
Initialize(Hwnds, Sizes, Apis) ==
    \E hwnd \in Hwnds, size \in Sizes :
    \E api \in Reached(hwnd # 0 /\ size[1] > 0 /\ size[2] > 0, Apis), u \in IndeterminateInts :
    \E retryOk \in Consulted(debugBuild /\ api = "D3D11CreateDeviceAndSwapChain"), blob \in Consulted(api \in Compilations) :
    \E exc \in Allocations(hwnd # 0 /\ size[1] > 0 /\ size[2] > 0, {AllocObject, AllocString, AllocVector}) :
    \E again \in Consulted(exc # "none") :
        LET width == size[1]
            height == size[2]
            l0 == L("Initialize DirectX renderer called", LOG_INFO)
            call(ret) == Call("Initialize", <<hwnd, width, height>>, api, Bool(ret))
        IN IF hwnd = 0
             THEN Returns(call(FALSE), g_renderer,
                          l0 \o L("Failed to initialize: Invalid window handle (null)", LOG_ERROR), <<>>, {})
           ELSE IF width <= 0 \/ height <= 0
             THEN Returns(call(FALSE), g_renderer,
                          l0 \o L("Failed to initialize: Invalid dimensions: ", LOG_ERROR), <<>>, {})
           ELSE IF exc = AllocObject
             THEN Thrown("Initialize", <<hwnd, width, height>>, exc, Bool(FALSE), again,
                         "Exception during initialization: ", g_renderer,
                         l0 \o L("Creating VolumeRenderer instance", LOG_INFO), <<>>)
           ELSE InitializeRenderer(hwnd, width, height, api, exc, again, u,
                                   IF g_renderer = Null THEN [log |-> <<>>, gpu |-> <<>>]
                                   ELSE VR_Destroy(g_renderer[1]),
                                   VR_Initialize(VolumeRenderer(u), hwnd, width, height, debugBuild, retryOk, blob,
                                                 IF exc = AllocVector THEN exc ELSE api))

\* A Shutdown that releases the resources and keeps the renderer object
Shutdown_keeps ==
    LET call == Call("Shutdown", <<>>, "none", Void)
    IN IF g_renderer # Null
         THEN LET s == VR_Shutdown(g_renderer[1])
              IN Returns(call, <<s.r>>, L("Shutting down DirectX renderer", LOG_INFO) \o s.log, s.gpu, {})
       ELSE Returns(call, g_renderer, L("Shutting down DirectX renderer", LOG_INFO), <<>>, {})

\* Shutdown
Shutdown ==
    LET l0 == L("Shutting down DirectX renderer", LOG_INFO)
        call == Call("Shutdown", <<>>, "none", Void)
    IN IF g_renderer # Null
         THEN LET s == VR_Shutdown(g_renderer[1])
                  d == VR_Destroy(s.r)
              IN Returns(call, Null,
                         l0 \o s.log \o d.log \o L("DirectX renderer shutdown complete", LOG_INFO),
                         s.gpu \o d.gpu, {})
       ELSE Returns(call, g_renderer,
                    l0 \o L("Shutdown called but renderer was not initialized", LOG_WARNING), <<>>, {})

\* Render
Render(Apis) ==
    \E api \in Reached(g_renderer # Null, Apis) :
        LET call == Call("Render", <<>>, api, Void)
        IN IF g_renderer # Null
             THEN LET s == VR_Render(g_renderer[1], api)
                  IN Returns(call, g_renderer, s.log, s.gpu, s.faults)
           ELSE Returns(call, g_renderer, L("Render called but renderer is not initialized", LOG_ERROR), <<>>, {})

\* LoadVolumeData
LoadVolumeData(Datas, Shapes, VoxelSizes, Apis) ==
    \E data \in Datas, shape \in Shapes, voxelSize \in VoxelSizes :
    \E api \in Reached(g_renderer # Null /\ data # 0 /\ shape[1] > 0 /\ shape[2] > 0 /\ shape[3] > 0, Apis) :
    \E exc \in Allocations(g_renderer # Null, {AllocString}) :
    \E again \in Consulted(exc # "none") :
        LET width == shape[1]
            height == shape[2]
            depth == shape[3]
            call(ret) == Call("LoadVolumeData", <<data, width, height, depth, voxelSize>>, api, Bool(ret))
            l0 == L("Loading volume data: ", LOG_INFO)
        IN IF exc # "none"
             THEN Thrown("LoadVolumeData", <<data, width, height, depth, voxelSize>>, exc, Bool(FALSE), again,
                         "Exception while loading volume data: ", g_renderer, <<>>, <<>>)
           ELSE IF g_renderer = Null
             THEN Returns(call(FALSE), g_renderer,
                          L("LoadVolumeData called but renderer is not initialized", LOG_ERROR), <<>>, {})
           ELSE IF data = 0
             THEN Returns(call(FALSE), g_renderer,
                          l0 \o L("Failed to load volume data: Data pointer is null", LOG_ERROR), <<>>, {})
           ELSE IF width <= 0 \/ height <= 0 \/ depth <= 0
             THEN Returns(call(FALSE), g_renderer,
                          l0 \o L("Failed to load volume data: Invalid dimensions", LOG_ERROR), <<>>, {})
           ELSE LET s == VR_LoadVolumeData(g_renderer[1], data, width, height, depth, voxelSize, api)
                IN Returns(call(s.ret), <<s.r>>,
                           l0 \o s.log \o (IF s.ret THEN L("Volume data loaded successfully", LOG_INFO)
                                           ELSE L("Failed to load volume data", LOG_ERROR)),
                           CreateTexture3DCall(s.r, "m_volumeTexture"),
                           CreateTexture3DFaults(s.r))

\* LoadLabelData
LoadLabelData(Datas, Shapes, Apis) ==
    \E data \in Datas, shape \in Shapes :
    \E api \in Reached(g_renderer # Null /\ data # 0 /\ shape[1] > 0 /\ shape[2] > 0 /\ shape[3] > 0, Apis) :
    \E exc \in Allocations(g_renderer # Null, {AllocString}) :
    \E again \in Consulted(exc # "none") :
        LET width == shape[1]
            height == shape[2]
            depth == shape[3]
            call(ret) == Call("LoadLabelData", <<data, width, height, depth>>, api, Bool(ret))
            l0 == L("Loading label data: ", LOG_INFO)
        IN IF exc # "none"
             THEN Thrown("LoadLabelData", <<data, width, height, depth>>, exc, Bool(FALSE), again,
                         "Exception while loading label data: ", g_renderer, <<>>, <<>>)
           ELSE IF g_renderer = Null
             THEN Returns(call(FALSE), g_renderer,
                          L("LoadLabelData called but renderer is not initialized", LOG_ERROR), <<>>, {})
           ELSE IF data = 0
             THEN Returns(call(FALSE), g_renderer,
                          l0 \o L("Failed to load label data: Data pointer is null", LOG_ERROR), <<>>, {})
           ELSE IF width <= 0 \/ height <= 0 \/ depth <= 0
             THEN Returns(call(FALSE), g_renderer,
                          l0 \o L("Failed to load label data: Invalid dimensions", LOG_ERROR), <<>>, {})
           ELSE LET s == VR_LoadLabelData(g_renderer[1], data, width, height, depth, api)
                IN Returns(call(s.ret), <<s.r>>,
                           l0 \o s.log \o (IF s.ret THEN L("Label data loaded successfully", LOG_INFO)
                                           ELSE L("Failed to load label data", LOG_ERROR)),
                           CreateTexture3DCall(s.r, "m_labelTexture"),
                           CreateTexture3DFaults(s.r))

\* The host passes colors with count: a null pointer, or an array that holds
\* at least count ints, 256 being enough for any count
Addressable(colors, count) == colors = Null \/ Len(colors[1]) >= min(count, MaterialCount)

\* UpdateMaterials
UpdateMaterials(Colors, Counts, Apis) ==
    \E colors \in Colors :
    \E count \in {n \in Counts : Addressable(colors, n)} :
    \E api \in Reached(g_renderer # Null /\ colors # Null /\ count > 0, Apis) :
    \E exc \in Allocations(g_renderer # Null, {AllocString}) :
    \E again \in Consulted(exc # "none") :
        LET call == Call("UpdateMaterials", <<colors, count>>, api, Void)
            l0 == L("Updating %d materials", LOG_INFO)
        IN IF exc # "none"
             THEN Thrown("UpdateMaterials", <<colors, count>>, exc, Void, again,
                         "Exception while updating materials: ", g_renderer, <<>>, <<>>)
           ELSE IF g_renderer = Null
             THEN Returns(call, g_renderer,
                          L("UpdateMaterials called but renderer is not initialized", LOG_ERROR), <<>>, {})
           ELSE IF colors = Null
             THEN Returns(call, g_renderer,
                          l0 \o L("Failed to update materials: Colors pointer is null", LOG_ERROR), <<>>, {})
           ELSE IF count <= 0
             THEN Returns(call, g_renderer,
                          l0 \o L("Failed to update materials: Invalid count", LOG_WARNING), <<>>, {})
           ELSE LET s == VR_UpdateMaterials(g_renderer[1], colors, count, api)
                IN Returns(call, <<s.r>>,
                           l0 \o s.log \o L("Materials updated successfully", LOG_INFO), <<>>, s.faults)

\* Resize
Resize(Sizes, Apis) ==
    \E size \in Sizes :
    \E api \in Reached(g_renderer # Null /\ size[1] > 0 /\ size[2] > 0, Apis) :
    \E exc \in Allocations(g_renderer # Null, {AllocString}) :
    \E again \in Consulted(exc # "none") :
        LET width == size[1]
            height == size[2]
            call == Call("Resize", <<width, height>>, api, Void)
            l0 == L("Resizing renderer to ", LOG_INFO)
        IN IF exc # "none"
             THEN Thrown("Resize", <<width, height>>, exc, Void, again,
                         "Exception during resize: ", g_renderer, <<>>, <<>>)
           ELSE IF g_renderer = Null
             THEN Returns(call, g_renderer,
                          L("Resize called but renderer is not initialized", LOG_ERROR), <<>>, {})
           ELSE IF width <= 0 \/ height <= 0
             THEN Returns(call, g_renderer, l0 \o L("Failed to resize: Invalid dimensions", LOG_ERROR), <<>>, {})
           ELSE LET s == VR_Resize(g_renderer[1], width, height, api)
                IN Returns(call, <<s.r>>, l0 \o s.log \o L("Renderer resized successfully", LOG_INFO), <<>>, {})

\* The bound on |theta|, in quarter turns: the model stops rotating further.
MaxTheta == 2

ThetaLimit == MaxTheta * XM_PIDIV2

\* RotateCamera
RotateCamera(Deltas) ==
    \E d \in Deltas :
        LET call == Call("RotateCamera", d, "none", Void)
        IN IF g_renderer = Null
             THEN Returns(call, g_renderer,
                          L("RotateCamera called but renderer is not initialized", LOG_ERROR), <<>>, {})
           ELSE /\ Abs(g_renderer[1].m_cameraTheta + d[1]) <= ThetaLimit
                /\ LET s == VR_RotateCamera(g_renderer[1], d[1], d[2])
                   IN Returns(call, <<s.r>>, s.log, <<>>, {})

\* ZoomCamera
ZoomCamera(Deltas) ==
    \E delta \in Deltas :
        LET call == Call("ZoomCamera", <<delta>>, "none", Void)
        IN IF g_renderer = Null
             THEN Returns(call, g_renderer,
                          L("ZoomCamera called but renderer is not initialized", LOG_ERROR), <<>>, {})
           ELSE LET s == VR_ZoomCamera(g_renderer[1], delta)
                IN Returns(call, <<s.r>>, s.log, <<>>, {})

\* ResetCamera
ResetCamera ==
    LET call == Call("ResetCamera", <<>>, "none", Void)
    IN IF g_renderer = Null
         THEN Returns(call, g_renderer,
                      L("ResetCamera called but renderer is not initialized", LOG_ERROR), <<>>, {})
       ELSE LET s == VR_ResetCamera(g_renderer[1])
            IN Returns(call, <<s.r>>, L("Resetting camera", LOG_INFO) \o s.log, <<>>, {})

\* SetRenderingParams
SetRenderingParams(Params) ==
    \E p \in Params :
    \E exc \in Allocations(g_renderer # Null, {AllocString}) :
    \E again \in Consulted(exc # "none") :
        LET call == Call("SetRenderingParams", p, "none", Void)
        IN IF exc # "none"
             THEN Thrown("SetRenderingParams", p, exc, Void, again,
                         "Exception while setting rendering params: ", g_renderer, <<>>, <<>>)
           ELSE IF g_renderer = Null
             THEN Returns(call, g_renderer,
                          L("SetRenderingParams called but renderer is not initialized", LOG_ERROR), <<>>, {})
           ELSE Returns(call, <<VR_SetParams(g_renderer[1], p[1], p[2], p[3], p[4], p[5])>>,
                        L("Setting rendering params: opacity=", LOG_INFO), <<>>, {})

\* ------------------------------------------------------------------
\* The host: the arguments it passes and the Direct3D calls that fail

Hwnds == {0, 1}

Datas == {0, 1}

VoxelSizes == {F_0_5}

InitApis == {"none"} \cup Range(InitApiCalls)

RenderApis == {"none", "CreateBuffer(renderParams)", "Present"}

LoadApis == {"none", "CreateTexture3D", "CreateShaderResourceView"}

UpdateApis == {"none", "Map"}

ResizeApis == {"none", "ResizeBuffers", "GetBuffer", "CreateRenderTargetView", "CreateTexture2D", "CreateDepthStencilView"}

\* 0xFFFF0000, 0xFF00FF00 as signed 32-bit ints
ColorsTwo == <<-65536, -16711936>>

\* 256 colours: 0x80000000, 0x7FFFFFFF, 0xFFFFFFFF and 0 among them, the other
\* odd places 0x12nnnnnn (positive ints), the even places 0xFF0000nn and
\* 0xFF000100 (negative ints)
Colors256 ==
    [i \in 1..MaterialCount |->
        CASE i = 3 -> INT_MIN
          [] i = 5 -> INT_MAX
          [] i = 7 -> -1
          [] i = 9 -> 0
          [] i % 2 = 1 /\ i \notin {3, 5, 7, 9} -> 301989888 + i * 65793
          [] OTHER -> i - 16777216]

Init ==
    /\ g_renderer = Null
    /\ g_logCallback = 0
    /\ debugBuild = FALSE
    /\ memoryLow = FALSE
    /\ lastCall = Call("none", <<>>, "none", Void)
    /\ logCalls = <<>>
    /\ delivered = <<>>
    /\ gpuCalls = <<>>
    /\ faults = {}
    /\ crashed = FALSE

\* The same start with the heap exhausted
InitLowMemory ==
    /\ g_renderer = Null
    /\ g_logCallback = 0
    /\ debugBuild = FALSE
    /\ memoryLow = TRUE
    /\ lastCall = Call("none", <<>>, "none", Void)
    /\ logCalls = <<>>
    /\ delivered = <<>>
    /\ gpuCalls = <<>>
    /\ faults = {}
    /\ crashed = FALSE

\* ------------------------------------------------------------------
\* Every operation, from the start of the process: every way Initialize can
\* fail, and each other operation with one valid and one invalid argument list.

MainSizes == {<<800, 600>>, <<0, 600>>}

MainShapes == {<<2, 2, 2>>}

MainColors == {<<ColorsTwo>>}

MainCounts == {0, 2}

MainNewSizes == {<<1024, 768>>}

MainRotations == {<<0, 0>>}

MainZooms == {0}

MainParams == {<<F_2, -F_2, 0, 1, FALSE>>}

Next ==
    \/ Initialize(Hwnds, MainSizes, InitApis)
    \/ Shutdown
    \/ Render({"none"})
    \/ LoadVolumeData(Datas, MainShapes, VoxelSizes, {"none"})
    \/ LoadLabelData(Datas, MainShapes, {"none"})
    \/ UpdateMaterials(MainColors, MainCounts, {"none"})
    \/ Resize(MainNewSizes, {"none"})
    \/ RotateCamera(MainRotations)
    \/ ZoomCamera(MainZooms)
    \/ ResetCamera
    \/ SetRenderingParams(MainParams)

Spec == Init /\ [][Next]_vars

\* ------------------------------------------------------------------
\* Logging: the host registers, replaces and removes its callback between
\* calls that log at each severity.

Callbacks == {0, 1, 2}

LoggingInitApis == {"none", "CreateDepthStencilView"}

NextLogging ==
    \/ SetLogCallback(Callbacks)
    \/ Initialize(Hwnds, MainSizes, LoggingInitApis)
    \/ Shutdown
    \/ Render({"none"})
    \/ UpdateMaterials(MainColors, MainCounts, {"none"})

SpecLogging == Init /\ [][NextLogging]_vars

\* ------------------------------------------------------------------
\* The frame: rendering on a renderer whose Initialize succeeded or stopped at
\* the constant buffer, the material view or the sampler, with and without a
\* volume and labels, with every way a frame can fail.

FrameInitApis == {"none", "CreateBuffer(constant)", "CreateShaderResourceView(material)", "CreateSamplerState"}

NextFrame ==
    \/ Initialize({1}, {<<800, 600>>}, FrameInitApis)
    \/ Shutdown
    \/ LoadVolumeData({1}, MainShapes, VoxelSizes, {"none"})
    \/ LoadLabelData({1}, MainShapes, {"none"})
    \/ Render(RenderApis)

SpecFrame == Init /\ [][NextFrame]_vars

\* ------------------------------------------------------------------
\* The pitches: volumes from a few voxels up to the largest int in each
\* direction, loaded on an initialized renderer; the texture creation succeeds
\* or fails.

PitchShapes ==
    {<<2, 2, 2>>, <<46340, 46340, 1>>, <<46341, 46341, 1>>, <<65536, 65536, 1>>, <<INT_MAX, INT_MAX, 1>>}

PitchApis == {"none", "CreateTexture3D"}

NextPitch ==
    \/ Initialize({1}, {<<800, 600>>}, {"none"})
    \/ Shutdown
    \/ LoadVolumeData({1}, PitchShapes, VoxelSizes, PitchApis)
    \/ LoadLabelData({1}, MainShapes, {"none"})

SpecPitch == Init /\ [][NextPitch]_vars

\* ------------------------------------------------------------------
\* Device creation in both builds: with and without _DEBUG, the first attempt
\* succeeding or failing, and the attempt without the debug layer succeeding
\* or failing.

\* The start in a release or a debug build
InitBuild ==
    /\ g_renderer = Null
    /\ g_logCallback = 0
    /\ debugBuild \in BOOLEAN
    /\ memoryLow = FALSE
    /\ lastCall = Call("none", <<>>, "none", Void)
    /\ logCalls = <<>>
    /\ delivered = <<>>
    /\ gpuCalls = <<>>
    /\ faults = {}
    /\ crashed = FALSE

DeviceInitApis == {"none", "D3D11CreateDeviceAndSwapChain", "CreateRenderTargetView"}

NextDevice ==
    \/ Initialize(Hwnds, MainSizes, DeviceInitApis)
    \/ Shutdown
    \/ Render({"none"})
    \/ Resize(MainNewSizes, {"none"})
    \/ SetRenderingParams(MainParams)

SpecDevice == InitBuild /\ [][NextDevice]_vars

\* ------------------------------------------------------------------
\* The camera alone: every way of creating and destroying the renderer, and
\* the three camera operations over a wider range of float arguments.

CameraInitApis == {"none", "D3D11CreateDeviceAndSwapChain", "CreateBuffer(index)"}

CameraRotations == {<<0, 0>>, <<XM_PIDIV2, Unit>>, <<-XM_PIDIV2, -F_2>>}

CameraZooms == {3 * Unit, -(8 * Unit)}

NextCamera ==
    \/ Initialize({1}, {<<800, 600>>}, CameraInitApis)
    \/ Shutdown
    \/ RotateCamera(CameraRotations)
    \/ ZoomCamera(CameraZooms)
    \/ ResetCamera

SpecCamera == Init /\ [][NextCamera]_vars

\* ------------------------------------------------------------------
\* Before initialization: every Initialize fails (a null window, a bad size,
\* or one Direct3D call of the sequence failing), and every other operation
\* is called on what that leaves.

NextStartup ==
    \/ Initialize(Hwnds, MainSizes, Range(InitApiCalls))
    \/ Shutdown
    \/ Render({"none"})
    \/ LoadVolumeData(Datas, MainShapes, VoxelSizes, {"none"})
    \/ LoadLabelData(Datas, MainShapes, {"none"})
    \/ UpdateMaterials(MainColors, MainCounts, {"none"})
    \/ Resize(MainNewSizes, {"none"})
    \/ RotateCamera(MainRotations)
    \/ ZoomCamera(MainZooms)
    \/ ResetCamera
    \/ SetRenderingParams(MainParams)

SpecStartup == Init /\ [][NextStartup]_vars

\* ------------------------------------------------------------------
\* Volume and label loading, on a renderer whose Initialize succeeded or
\* failed at the device, with every way a load can fail.

VolumeInitApis == {"none", "D3D11CreateDeviceAndSwapChain"}

\* The null pointer and two host buffers
VolumeDatas == {0, 1, 2}

VolumeShapes == {<<4, 3, 2>>, <<2, 2, 2>>, <<0, 2, 2>>}

LabelShapes == {<<2, 2, 2>>, <<2, 2, -1>>}

NextVolume ==
    \/ Initialize({1}, {<<800, 600>>}, VolumeInitApis)
    \/ Shutdown
    \/ LoadVolumeData(VolumeDatas, VolumeShapes, VoxelSizes, LoadApis)
    \/ LoadLabelData(Datas, LabelShapes, LoadApis)

SpecVolume == Init /\ [][NextVolume]_vars

\* ------------------------------------------------------------------
\* The surface: resizing and rendering on a renderer whose Initialize succeeded
\* or failed at the device or at the render-target view, with every way a resize and a frame
\* can fail.

SurfaceInitApis == {"none", "D3D11CreateDeviceAndSwapChain", "CreateRenderTargetView"}

SurfaceNewSizes == {<<1024, 768>>, <<640, 480>>, <<1024, 0>>}

NextSurface ==
    \/ Initialize({1}, {<<800, 600>>}, SurfaceInitApis)
    \/ Shutdown
    \/ Resize(SurfaceNewSizes, ResizeApis)
    \/ Render(RenderApis)

SpecSurface == Init /\ [][NextSurface]_vars

\* ------------------------------------------------------------------
\* The material table: updates on a renderer whose Initialize succeeded, or
\* failed before or at the creation of the material buffer.

MaterialInitApis ==
    {"none", "D3D11CreateDeviceAndSwapChain", "CreateBuffer(constant)", "CreateBuffer(material)",
     "CreateShaderResourceView(material)"}

MaterialColors == {Null, <<ColorsTwo>>, <<Colors256>>}

MaterialCounts == {0, 1, 2, MaterialCount + 44}

\* Counts above the size of the table
BigCounts == {MaterialCount + 1, MaterialCount + 44}

NextMaterials ==
    \/ Initialize({1}, {<<800, 600>>}, MaterialInitApis)
    \/ Shutdown
    \/ UpdateMaterials(MaterialColors, MaterialCounts, UpdateApis)

SpecMaterials == Init /\ [][NextMaterials]_vars

\* ------------------------------------------------------------------
\* The rendering parameters: every combination of a value below, inside and
\* above each range, on a renderer whose Initialize succeeded or failed.

ParamInitApis == {"none", "D3D11CreateDeviceAndSwapChain"}

ParamSets ==
    {<<o, b, c, m, sh>> : o \in {-F_0_5, F_0_5, F_2}, b \in {-F_2, 0, F_2}, c \in {0, Unit, F_10},
                         m \in {0, 1}, sh \in BOOLEAN}

NextParams ==
    \/ Initialize({1}, {<<800, 600>>}, ParamInitApis)
    \/ Shutdown
    \/ SetRenderingParams(ParamSets)
    \/ Render({"none"})

SpecParams == Init /\ [][NextParams]_vars

\* ------------------------------------------------------------------
\* Every operation with the heap exhausted: each allocation of the library
\* code may throw std::bad_alloc.

NextExceptions ==
    \/ Initialize({1}, {<<800, 600>>}, {"none"})
    \/ Shutdown
    \/ Render({"none"})
    \/ LoadVolumeData({1}, MainShapes, VoxelSizes, {"none"})
    \/ LoadLabelData({1}, MainShapes, {"none"})
    \/ UpdateMaterials(MainColors, {2}, {"none"})
    \/ Resize(MainNewSizes, {"none"})
    \/ RotateCamera(MainRotations)
    \/ ZoomCamera(MainZooms)
    \/ ResetCamera
    \/ SetRenderingParams(MainParams)

SpecExceptions == InitLowMemory /\ [][NextExceptions]_vars

\* ------------------------------------------------------------------
\* Properties of the operations before initialization (checked under SpecStartup)

\* The renderer exists and the last exported call was `op`.
Did(op) == lastCall.op = op /\ g_renderer # Null

\* Some Log call of `log` has severity LOG_ERROR.
HasError(log) == \E i \in DOMAIN log : log[i].sev = LOG_ERROR

\* Initialize has returned true on renderer r: the index buffer is the last
\* object Initialize creates, and nothing but Shutdown releases it.
Initialized(r) == r.m_device # Null /\ r.m_indexBuffer # Null

DataOperations ==
    {"Render", "LoadVolumeData", "LoadLabelData", "UpdateMaterials", "Resize",
     "RotateCamera", "ZoomCamera", "ResetCamera", "SetRenderingParams"}

\* C1: while no Initialize call has returned true (never called, called with
\* invalid arguments, or failed part-way), each call of Render, LoadVolumeData,
\* LoadLabelData, UpdateMaterials, Resize, RotateCamera, ZoomCamera,
\* ResetCamera or SetRenderingParams logs at least one ERROR message and makes
\* no access through a null handle or outside the material table.
C1_UninitializedCallsReportError ==
    [][(lastCall'.op \in DataOperations /\ (g_renderer = Null \/ ~Initialized(g_renderer[1])))
        => (HasError(logCalls') /\ faults' = {})]_vars

\* The call recorded in c was made in violation of a precondition: on no
\* initialized renderer g (every operation but Initialize), with a null
\* window or data pointer, or with a non-positive dimension.
PreconditionViolated(c, g) ==
    \/ c.op \in DataOperations \cup {"Shutdown"} /\ (g = Null \/ ~Initialized(g[1]))
    \/ c.op = "Initialize" /\ (c.args[1] = 0 \/ c.args[2] <= 0 \/ c.args[3] <= 0)
    \/ c.op \in {"LoadVolumeData", "LoadLabelData"}
          /\ (c.args[1] = 0 \/ c.args[2] <= 0 \/ c.args[3] <= 0 \/ c.args[4] <= 0)
    \/ c.op = "UpdateMaterials" /\ c.args[1] = Null
    \/ c.op = "Resize" /\ (c.args[1] <= 0 \/ c.args[2] <= 0)

\* C21: for every exposed operation, a precondition violation (no renderer
\* initialized, a null data pointer, or a non-positive dimension) is detected
\* before any renderer state is changed and before any graphics call is made,
\* is logged at ERROR severity, and makes a bool-returning operation return
\* false.
C21_PreconditionViolationsDetected ==
    [][PreconditionViolated(lastCall', g_renderer)
        => /\ g_renderer' = g_renderer
           /\ gpuCalls' = <<>>
           /\ faults' = {}
           /\ HasError(logCalls')
           /\ lastCall'.ret \in {Void, Bool(FALSE)}]_vars

\* ------------------------------------------------------------------
\* Properties of logging (checked under SpecLogging)

\* The severities of Logger.h
Severities == {LOG_INFO, LOG_WARNING, LOG_ERROR}

\* C25: every log message is delivered synchronously to the currently
\* registered callback, with a severity in {0, 1, 2}; with no callback (never
\* set, or set to null) the message is dropped and nothing else happens; the
\* registered callback stays across Initialize and Shutdown until
\* SetLogCallback reassigns it.
C25_LogDelivered ==
    [][/\ \A i \in DOMAIN logCalls' : logCalls'[i].sev \in Severities
       /\ IF g_logCallback' # 0
          THEN /\ Len(delivered') = Len(logCalls')
               /\ \A i \in DOMAIN logCalls' :
                    delivered'[i] = [cb |-> g_logCallback', msg |-> logCalls'[i].msg, sev |-> logCalls'[i].sev]
          ELSE delivered' = <<>>
       /\ IF lastCall'.op = "SetLogCallback"
          THEN g_logCallback' = lastCall'.args[1]
          ELSE g_logCallback' = g_logCallback]_vars

\* C25 happens: after the host replaced its callback, a Shutdown of an
\* initialized renderer logged and every message went to the new callback.
C25_Witness ==
    /\ lastCall.op = "Shutdown"
    /\ gpuCalls # <<>>
    /\ g_logCallback = 2
    /\ logCalls # <<>>
    /\ \A i \in DOMAIN delivered : delivered[i].cb = 2
    /\ Len(delivered) = Len(logCalls)

\* ------------------------------------------------------------------
\* Properties of a failed Initialize (checked under SpecStartup)

\* The objects Initialize creates after the device, in the order of creation
InitMembers ==
    << "m_renderTargetView", "m_depthStencilView", "m_vertexShader", "m_inputLayout", "m_pixelShader",
       "m_constantBuffer", "m_materialBuffer", "m_materialSRV", "m_volumeSampler",
       "m_vertexBuffer", "m_indexBuffer" >>

\* The position in InitMembers of the object that the Direct3D call api is
\* made for
FailsAt ==
    [api \in Range(InitApiCalls) \ {"D3D11CreateDeviceAndSwapChain"} |->
        CASE api \in {"GetBuffer", "CreateRenderTargetView"} -> 1
          [] api \in {"CreateTexture2D", "CreateDepthStencilView"} -> 2
          [] api \in {"D3DCompileFromFile(VertexShader.hlsl)", "CreateVertexShader"} -> 3
          [] api = "CreateInputLayout" -> 4
          [] api \in {"D3DCompileFromFile(PixelShader.hlsl)", "CreatePixelShader"} -> 5
          [] api = "CreateBuffer(constant)" -> 6
          [] api = "CreateBuffer(material)" -> 7
          [] api = "CreateShaderResourceView(material)" -> 8
          [] api = "CreateSamplerState" -> 9
          [] api = "CreateBuffer(vertex)" -> 10
          [] api = "CreateBuffer(index)" -> 11]

\* C28: when a step of Initialize fails after the device was created (render
\* target view, depth view, shader compilation or creation, input layout,
\* constant or material buffer, sampler, vertex or index buffer), Initialize
\* logs an ERROR, returns false, runs no later step and rolls nothing back:
\* the device, the context, the swap chain and every object created by an
\* earlier step stay alive.
C28_FailedInitializeKeepsObjects ==
    (lastCall.op = "Initialize" /\ lastCall.api \in DOMAIN FailsAt)
        => /\ lastCall.ret = Bool(FALSE)
           /\ HasError(logCalls)
           /\ g_renderer # Null
           /\ g_renderer[1].m_device # Null
           /\ g_renderer[1].m_context # Null
           /\ g_renderer[1].m_swapChain # Null
           /\ \A i \in DOMAIN InitMembers :
                 (g_renderer[1][InitMembers[i]] # Null) <=> (i < FailsAt[lastCall.api])
           /\ (g_renderer[1].m_context[1].viewport # Null) <=> (FailsAt[lastCall.api] > 2)
           /\ ~ \E i \in DOMAIN gpuCalls : gpuCalls[i].call = "Release" /\ i > 1
                                            /\ \E j \in 1 .. (i - 1) :
                                                  gpuCalls[j].call = "D3D11CreateDeviceAndSwapChain"

\* C28 happens: Initialize has failed at the sampler; the device and the
\* material view exist, the vertex buffer does not.
C28_Witness ==
    /\ Did("Initialize")
    /\ lastCall.api = "CreateSamplerState"
    /\ lastCall.ret = Bool(FALSE)
    /\ g_renderer[1].m_device # Null
    /\ g_renderer[1].m_materialSRV # Null
    /\ g_renderer[1].m_vertexBuffer = Null

\* ------------------------------------------------------------------
\* Properties of the rendering parameters (checked under SpecParams)

\* x clamped to [lo, hi]
Clamped(x, lo, hi) == IF x < lo THEN lo ELSE IF x > hi THEN hi ELSE x

\* C23: after SetRenderingParams(o, b, c, m, s) on an existing renderer,
\* opacity = o clamped to [0, 1], brightness = b clamped to [-1, 1], contrast =
\* c clamped to [0.1, 5], render mode = m and show-labels = s; in every
\* reachable state (the constructor defaults included) opacity, brightness and
\* contrast lie within those ranges.
C23_ParamsClamped ==
    g_renderer # Null =>
        LET r == g_renderer[1]
            a == lastCall.args
        IN /\ 0 <= r.m_opacity /\ r.m_opacity <= Unit
           /\ -Unit <= r.m_brightness /\ r.m_brightness <= Unit
           /\ F_0_1 <= r.m_contrast /\ r.m_contrast <= 5 * Unit
           /\ lastCall.op = "SetRenderingParams"
                 => /\ r.m_opacity = Clamped(a[1], 0, Unit)
                    /\ r.m_brightness = Clamped(a[2], -Unit, Unit)
                    /\ r.m_contrast = Clamped(a[3], F_0_1, 5 * Unit)
                    /\ r.m_renderMode = a[4]
                    /\ r.m_showLabels = a[5]

\* C23 happens: SetRenderingParams(2, -2, 0, 1, false) has set opacity 1,
\* brightness -1 and contrast 0.1.
C23_Witness ==
    /\ Did("SetRenderingParams")
    /\ lastCall.args = <<F_2, -F_2, 0, 1, FALSE>>
    /\ g_renderer[1].m_opacity = Unit
    /\ g_renderer[1].m_brightness = -Unit
    /\ g_renderer[1].m_contrast = F_0_1
    /\ g_renderer[1].m_renderMode = 1
    /\ ~g_renderer[1].m_showLabels

\* ------------------------------------------------------------------
\* Properties of exceptions (checked under SpecExceptions)

\* The operations that return a bool
BoolOperations == {"Initialize", "LoadVolumeData", "LoadLabelData"}

\* C22: an exception raised at any point inside Initialize, Shutdown, Render,
\* LoadVolumeData, LoadLabelData, UpdateMaterials, Resize, RotateCamera,
\* ZoomCamera, ResetCamera or SetRenderingParams is caught inside that call,
\* logged at ERROR severity, and the call returns normally (false for
\* bool-returning operations); no exception ever reaches the host.
C22_ExceptionsCaught ==
    /\ Propagated \notin faults
    /\ lastCall.api \in {AllocObject, AllocString, AllocVector}
          => /\ HasError(logCalls)
             /\ lastCall.ret = IF lastCall.op \in BoolOperations THEN Bool(FALSE) ELSE Void

\* ------------------------------------------------------------------
\* Properties of volume and label loading (checked under SpecVolume)

\* What LoadVolumeData records of the volume
VolumeState(r) ==
    <<r.m_volumeWidth, r.m_volumeHeight, r.m_volumeDepth, r.m_voxelSize, r.m_volumeTexture, r.m_volumeSRV>>

\* C2: whenever LoadVolumeData returns false, whatever the cause, the volume
\* width, height and depth, the voxel size, the volume texture and its
\* read-view are exactly what they were before the call.
C2_FailedLoadChangesNothing ==
    [][(lastCall'.op = "LoadVolumeData" /\ lastCall'.ret = Bool(FALSE))
        => IF g_renderer = Null THEN g_renderer' = Null
           ELSE g_renderer' # Null /\ VolumeState(g_renderer'[1]) = VolumeState(g_renderer[1])]_vars

\* C4: on a renderer whose Initialize succeeded, LoadLabelData with non-null
\* data and width, height, depth all > 0 returns false only if the creation
\* of the label texture or of its read-view fails, whether or not
\* LoadVolumeData was called before.
C4_LabelLoadFailsOnlyOnCreation ==
    (/\ Did("LoadLabelData")
     /\ Initialized(g_renderer[1])
     /\ lastCall.args[1] # 0
     /\ lastCall.args[2] > 0 /\ lastCall.args[3] > 0 /\ lastCall.args[4] > 0
     /\ lastCall.ret = Bool(FALSE))
    => lastCall.api \in {"CreateTexture3D", "CreateShaderResourceView"}

\* C5: the label texture a successful LoadLabelData(data, w, h, d) creates has
\* width w, height h, depth d, row pitch w and slice pitch w * h, taken from
\* that call's own arguments, for every previously loaded volume.
C5_LabelTextureShape ==
    (Did("LoadLabelData") /\ lastCall.ret = Bool(TRUE)) =>
        /\ g_renderer[1].m_labelTexture # Null
        /\ g_renderer[1].m_labelTexture[1].width = lastCall.args[2]
        /\ g_renderer[1].m_labelTexture[1].height = lastCall.args[3]
        /\ g_renderer[1].m_labelTexture[1].depth = lastCall.args[4]
        /\ g_renderer[1].m_labelTexture[1].rowPitch = lastCall.args[2]
        /\ g_renderer[1].m_labelTexture[1].slicePitch = lastCall.args[2] * lastCall.args[3]

\* ------------------------------------------------------------------
\* Properties of the surface (checked under SpecSurface)

\* The frame was drawn and presented.
DrawsAndPresents(gpu) ==
    /\ \E i \in DOMAIN gpu : gpu[i].call = "DrawIndexed(36)"
    /\ \E i \in DOMAIN gpu : gpu[i].call = "Present(1)"

\* The last call was a Resize, on a renderer whose Initialize succeeded, in
\* which a Direct3D call failed.
ResizeFailed ==
    /\ Did("Resize")
    /\ lastCall.api # "none"
    /\ Initialized(g_renderer[1])

\* C3: after a Resize in which the swap-chain buffer resize, the back-buffer
\* fetch, the render-target view creation or the depth view creation fails,
\* the renderer again holds a non-null render-target view and depth view, and
\* the next Render draws and presents a frame.
C3_ResizeFailureKeepsViews ==
    [][ResizeFailed =>
        /\ g_renderer[1].m_renderTargetView # Null
        /\ g_renderer[1].m_depthStencilView # Null
        /\ (lastCall'.op = "Render" /\ lastCall'.api = "none")
              => (faults' = {} /\ DrawsAndPresents(gpuCalls'))]_vars

\* ------------------------------------------------------------------
\* Properties of the resident volume (checked under SpecVolume)

\* C16: after any sequence of LoadVolumeData calls the renderer holds at most
\* one volume texture and one volume read-view; after a call that returns true
\* they are the ones created from that call's data, the recorded dimensions
\* and voxel size are that call's arguments, and the texture and view of the
\* previous load are no longer held.
C16_VolumeReplacedWholesale ==
    g_renderer # Null =>
        LET r == g_renderer[1]
        IN /\ Len(r.m_volumeTexture) <= 1
           /\ Len(r.m_volumeSRV) <= 1
           /\ (lastCall.op = "LoadVolumeData" /\ lastCall.ret = Bool(TRUE))
                 => /\ r.m_volumeTexture # Null
                    /\ r.m_volumeTexture[1].pSysMem = lastCall.args[1]
                    /\ <<r.m_volumeTexture[1].width, r.m_volumeTexture[1].height, r.m_volumeTexture[1].depth>>
                          = <<lastCall.args[2], lastCall.args[3], lastCall.args[4]>>
                    /\ r.m_volumeSRV # Null
                    /\ r.m_volumeSRV[1].of = r.m_volumeTexture[1]
                    /\ <<r.m_volumeWidth, r.m_volumeHeight, r.m_volumeDepth, r.m_voxelSize>>
                          = <<lastCall.args[2], lastCall.args[3], lastCall.args[4], lastCall.args[5]>>

\* C16 happens: a LoadVolumeData of buffer 2 as 2 x 2 x 2 has returned true on a
\* renderer that held a 4 x 3 x 2 volume before (the label texture, sized from
\* the volume resident when it was created, is still 4 wide); the texture and
\* the view held now are those of buffer 2.
C16_Witness ==
    /\ Did("LoadVolumeData")
    /\ lastCall.ret = Bool(TRUE)
    /\ lastCall.args = <<2, 2, 2, 2, F_0_5>>
    /\ g_renderer[1].m_labelTexture # Null
    /\ g_renderer[1].m_labelTexture[1].width = 4
    /\ g_renderer[1].m_volumeTexture[1].pSysMem = 2
    /\ g_renderer[1].m_volumeSRV[1].of.width = 2

\* ------------------------------------------------------------------
\* Properties of resizing and of a frame without a device (checked under SpecSurface)

\* C20: after a successful Initialize, every Resize(w, h) with w, h > 0 in which
\* all graphics calls succeed leaves a recreated render-target view, a depth
\* buffer of w x h, a viewport of w x h and the stored surface size (w, h); this
\* holds for any number of consecutive Resize calls, the last one determining
\* the sizes.
C20_ResizeSetsSurface ==
    (/\ Did("Resize")
     /\ Initialized(g_renderer[1])
     /\ lastCall.api = "none"
     /\ lastCall.args[1] > 0
     /\ lastCall.args[2] > 0)
    => LET r == g_renderer[1]
           w == lastCall.args[1]
           h == lastCall.args[2]
       IN /\ r.m_renderTargetView = Sized("ID3D11RenderTargetView", w, h)
          /\ r.m_depthStencilView = Sized("ID3D11DepthStencilView", w, h)
          /\ r.m_context[1].viewport = <<w, h>>
          /\ <<r.m_swapChain[1].width, r.m_swapChain[1].height>> = <<w, h>>
          /\ <<r.m_width, r.m_height>> = <<w, h>>

\* C20 happens: Resize(640, 480) has succeeded on a renderer initialized at
\* 800 x 600; views, viewport and stored size are 640 x 480.
C20_Witness ==
    /\ Did("Resize")
    /\ Initialized(g_renderer[1])
    /\ lastCall.api = "none"
    /\ lastCall.args = <<640, 480>>
    /\ g_renderer[1].m_depthStencilView # Null
    /\ g_renderer[1].m_depthStencilView[1].width = 640
    /\ g_renderer[1].m_context[1].viewport = <<640, 480>>
    /\ g_renderer[1].m_height = 480

\* C18: whenever the device, the context or the swap chain is missing (before
\* any Initialize, or after Shutdown), Render issues no clear, bind, upload,
\* draw or present command, logs a message at ERROR severity, and returns.
C18_RenderWithoutDeviceIsNoOp ==
    (/\ lastCall.op = "Render"
     /\ \/ g_renderer = Null
        \/ g_renderer[1].m_device = Null
        \/ g_renderer[1].m_context = Null
        \/ g_renderer[1].m_swapChain = Null)
    => /\ gpuCalls = <<>>
       /\ HasError(logCalls)
       /\ faults = {}
       /\ ~crashed

\* C18 happens: Render has returned on a renderer object whose device was
\* never created, having logged an error and issued nothing.
C18_Witness ==
    /\ Did("Render")
    /\ g_renderer[1].m_device = Null
    /\ gpuCalls = <<>>
    /\ HasError(logCalls)

\* The devices alive after the first k commands of gpu, n of them being alive
\* before: the creation makes one, the release of m_device ends one.
RECURSIVE AliveDevices(_, _, _)
AliveDevices(n, gpu, k) ==
    IF k = 0 THEN n
    ELSE LET before == AliveDevices(n, gpu, k - 1)
         IN IF gpu[k].call = "D3D11CreateDeviceAndSwapChain" THEN before + 1
            ELSE IF gpu[k].call = "Release" /\ gpu[k].arg = "m_device" THEN before - 1
            ELSE before

\* The members Resize may rebuild
SurfaceMembers == {"m_renderTargetView", "m_depthStencilView", "m_context", "m_swapChain", "m_width", "m_height"}

\* C24: across any sequence of Initialize, Resize and Shutdown calls (Initialize
\* called again without a Shutdown included), at most one device, context and
\* swap chain are alive at any moment, and between a successful Initialize and
\* the next Shutdown or Initialize the device is never recreated: Resize
\* rebuilds only the render-target view, the depth view and the viewport.
C24_OneDevice ==
    [][LET held == IF g_renderer # Null /\ g_renderer[1].m_device # Null THEN 1 ELSE 0
       IN /\ \A k \in 0 .. Len(gpuCalls') : AliveDevices(held, gpuCalls', k) \in {0, 1}
          /\ AliveDevices(held, gpuCalls', Len(gpuCalls'))
                = IF g_renderer' # Null /\ g_renderer'[1].m_device # Null THEN 1 ELSE 0
          /\ (g_renderer # Null /\ lastCall'.op \notin {"Initialize", "Shutdown"})
                => /\ g_renderer' # Null
                   /\ g_renderer'[1].m_device = g_renderer[1].m_device
                   /\ Len(g_renderer'[1].m_context) = Len(g_renderer[1].m_context)
                   /\ Len(g_renderer'[1].m_swapChain) = Len(g_renderer[1].m_swapChain)
                   /\ g_renderer[1].m_swapChain # Null
                         => g_renderer'[1].m_swapChain[1].hwnd = g_renderer[1].m_swapChain[1].hwnd
          /\ (g_renderer # Null /\ lastCall'.op = "Resize")
                => \A f \in DOMAIN g_renderer[1] \ SurfaceMembers : g_renderer'[1][f] = g_renderer[1][f]]_vars

\* C24 happens: Initialize has succeeded on a process that already held an
\* initialized renderer; the old device was released before the new one was
\* created.
C24_Witness ==
    /\ Did("Initialize")
    /\ lastCall.ret = Bool(TRUE)
    /\ \E i, j \in DOMAIN gpuCalls :
          /\ i < j
          /\ gpuCalls[i].call = "Release" /\ gpuCalls[i].arg = "m_device"
          /\ gpuCalls[j].call = "D3D11CreateDeviceAndSwapChain"

\* ------------------------------------------------------------------
\* Properties of Shutdown (checked under SpecVolume)

\* The number of Release calls in gpu on the object held by member f
ReleasesOf(gpu, f) == Cardinality({i \in DOMAIN gpu : gpu[i].call = "Release" /\ gpu[i].arg = f})

\* C17: when Shutdown returns, the renderer holds no GPU resource at all:
\* device, context, swap chain, render-target and depth views, both shaders,
\* input layout, vertex, index, constant and material buffers, the material
\* read-view, the volume and label textures with their views and the sampler
\* have all been released (each object held before the call exactly once).
C17_ShutdownReleasesEverything ==
    [][(lastCall'.op = "Shutdown" /\ g_renderer # Null)
        => /\ g_renderer' = Null
           /\ \A i \in DOMAIN ComPtrMembers :
                 ReleasesOf(gpuCalls', ComPtrMembers[i])
                    = IF g_renderer[1][ComPtrMembers[i]] # Null THEN 1 ELSE 0]_vars

\* C17 happens: Shutdown has returned after releasing an initialized renderer
\* with a volume and a label texture loaded: 18 objects, the material
\* read-view among them.
C17_Witness ==
    /\ lastCall.op = "Shutdown"
    /\ g_renderer = Null
    /\ \A i \in DOMAIN ComPtrMembers : ReleasesOf(gpuCalls, ComPtrMembers[i]) = 1

\* C19: Shutdown is idempotent: called when nothing is initialized (before any
\* Initialize, or after an earlier Shutdown) it logs a message, changes no
\* state and returns; any number of consecutive Shutdown calls leaves the same
\* state as one (no renderer, the log callback as it was).
C19_ShutdownIdempotent ==
    [][lastCall'.op = "Shutdown"
        => /\ g_renderer' = Null
           /\ g_logCallback' = g_logCallback
           /\ debugBuild' = debugBuild
           /\ faults' = {}
           /\ g_renderer = Null
                 => /\ logCalls' = L("Shutting down DirectX renderer", LOG_INFO)
                                   \o L("Shutdown called but renderer was not initialized", LOG_WARNING)
                    /\ gpuCalls' = <<>>]_vars

\* C19 happens: a Shutdown called with no renderer has returned, having logged
\* its warning and released nothing.
C19_Witness ==
    /\ lastCall.op = "Shutdown"
    /\ g_renderer = Null
    /\ \E i \in DOMAIN logCalls : logCalls[i].msg = "Shutdown called but renderer was not initialized"
    /\ gpuCalls = <<>>

\* ------------------------------------------------------------------
\* Properties of a frame (checked under Spec)

\* The frame binds the volume view to pixel-shader slot 0.
BindsVolumeView(gpu) ==
    \E i \in DOMAIN gpu : gpu[i].call = "PSSetShaderResources(0)" /\ gpu[i].arg = "m_volumeSRV"

\* C15: Render changes none of the recorded volume dimensions and voxel size,
\* the volume and label textures and views, the material table, the camera
\* state and the rendering parameters; hence, once a LoadVolumeData has
\* succeeded (the renderer holds a volume view), every Render call draws and
\* presents a frame with that volume view bound, without a reload.
C15_RenderKeepsState ==
    [][(lastCall'.op = "Render" /\ g_renderer # Null)
        => /\ g_renderer' = g_renderer
           /\ g_renderer[1].m_volumeSRV # Null
                 => /\ faults' = {}
                    /\ DrawsAndPresents(gpuCalls')
                    /\ BindsVolumeView(gpuCalls')]_vars

\* ------------------------------------------------------------------
\* Properties of the order of a frame (checked under SpecFrame)

\* The context commands of Render and of the UpdateConstantBuffers it calls, in
\* the order of the code
RenderOrder ==
    << <<"ClearRenderTargetView", "m_renderTargetView">>,
       <<"ClearDepthStencilView", "m_depthStencilView">>,
       <<"OMSetRenderTargets", "m_renderTargetView">>,
       <<"IASetVertexBuffers", "m_vertexBuffer">>,
       <<"IASetIndexBuffer", "m_indexBuffer">>,
       <<"IASetPrimitiveTopology", "TRIANGLELIST">>,
       <<"IASetInputLayout", "m_inputLayout">>,
       <<"VSSetShader", "m_vertexShader">>,
       <<"UpdateSubresource", "m_constantBuffer">>,
       <<"UpdateSubresource", "renderParamsBuffer">>,
       <<"PSSetConstantBuffers(1)", "renderParamsBuffer">>,
       <<"PSSetShaderResources(2)", "m_materialSRV">>,
       <<"VSSetConstantBuffers(0)", "m_constantBuffer">>,
       <<"PSSetConstantBuffers(0)", "m_constantBuffer">>,
       <<"PSSetShader", "m_pixelShader">>,
       <<"PSSetShaderResources(0)", "m_volumeSRV">>,
       <<"PSSetShaderResources(1)", "m_labelSRV">>,
       <<"PSSetSamplers(0)", "m_volumeSampler">>,
       <<"DrawIndexed(36)", "m_context">>,
       <<"Present(1)", "m_swapChain">> >>

\* The same commands with the rendering parameters and the material view after
\* the sampler
StatedOrder ==
    SubSeq(RenderOrder, 1, 9) \o SubSeq(RenderOrder, 13, 18) \o SubSeq(RenderOrder, 10, 12)
    \o SubSeq(RenderOrder, 19, 20)

\* The commands of gpu, each as <<call, handle>>
Commands(gpu) == [i \in DOMAIN gpu |-> <<gpu[i].call, gpu[i].arg>>]

\* The commands of gpu are commands of `order`, in the order of `order`
InOrder(gpu, order) ==
    LET cmd == Commands(gpu)
        at(c) == CHOOSE n \in DOMAIN order : order[n] = c
    IN /\ \A i \in DOMAIN cmd : cmd[i] \in Range(order)
       /\ \A i, j \in DOMAIN cmd : i < j => at(cmd[i]) < at(cmd[j])

\* Render passes its test of the device, the context and the swap chain
PassesRenderCheck(g) ==
    g # Null /\ g[1].m_context # Null /\ g[1].m_device # Null /\ g[1].m_swapChain # Null

\* Every object a frame binds on a condition exists
HasOptionalObjects(r) ==
    /\ r.m_constantBuffer # Null
    /\ r.m_materialSRV # Null
    /\ r.m_volumeSRV # Null
    /\ r.m_labelSRV # Null
    /\ r.m_volumeSampler # Null

C10_UpdateMaterialsNoOp ==
    [][(/\ lastCall'.op = "UpdateMaterials"
        /\ \/ lastCall'.args[1] = Null
           \/ lastCall'.args[2] <= 0
           \/ g_renderer = Null
           \/ g_renderer[1].m_device = Null
           \/ g_renderer[1].m_context = Null
           \/ g_renderer[1].m_materialBuffer = Null)
        => /\ logCalls' # <<>>
           /\ faults' = {}
           /\ IF g_renderer = Null THEN g_renderer' = Null
              ELSE /\ g_renderer' # Null
                   /\ g_renderer'[1].m_materials = g_renderer[1].m_materials
                   /\ g_renderer'[1].m_materialBuffer = g_renderer[1].m_materialBuffer]_vars

\* C11: for every renderer state and every colors array, UpdateMaterials(colors, n)
\* with n > 256 produces the same material table and the same GPU upload as
\* UpdateMaterials(colors, 256), and reads no entry of colors at index >= 256.
C11_CountAbove256SameAs256 ==
    g_renderer # Null =>
        \A colors \in MaterialColors \ {Null}, n \in BigCounts, api \in UpdateApis :
            LET big == VR_UpdateMaterials(g_renderer[1], colors, n, api)
                full == VR_UpdateMaterials(g_renderer[1], colors, 256, api)
            IN /\ big.r = full.r
               /\ big.faults = full.faults
               /\ Len(colors[1]) >= 256 => "colors[i]: read out of bounds" \notin big.faults

\* C11 happens: UpdateMaterials with 256 colours and count 300 has run on an
\* initialized renderer; entry 255 of the table is the last colour, the GPU
\* buffer holds the table, and nothing was read or written out of bounds.
C11_Witness ==
    /\ Did("UpdateMaterials")
    /\ lastCall.args = <<<<Colors256>>, 300>>
    /\ lastCall.api = "none"
    /\ Initialized(g_renderer[1])
    /\ faults = {}
    /\ MatAt(g_renderer[1].m_materials, 256) = <<0, 1, 0, 255>>
    /\ g_renderer[1].m_materialBuffer[1].data = g_renderer[1].m_materials

\* C12: after UpdateMaterials(colors, count), with c = count clamped to
\* [1, 256], every entry of the material table at index i >= c holds the colour
\* it held before the call (entry i of the table is MatAt(m, i + 1)).
C12_EntriesFromCountKeepColour ==
    [][(lastCall'.op = "UpdateMaterials" /\ g_renderer # Null)
        => LET count == lastCall'.args[2]
               c == IF count < 1 THEN 1 ELSE IF count > 256 THEN 256 ELSE count
           IN /\ g_renderer' # Null
              /\ g_renderer'[1].m_materials.size = g_renderer[1].m_materials.size
              /\ \A i \in c .. 255 :
                    MatAt(g_renderer'[1].m_materials, i + 1) = MatAt(g_renderer[1].m_materials, i + 1)]_vars

\* C12 happens: UpdateMaterials(colors, 1) has overwritten entry 0 of a table
\* that an earlier call with 256 colours had filled; entries 1 and 255 still
\* hold the colours of the earlier call.
C12_Witness ==
    /\ Did("UpdateMaterials")
    /\ lastCall.args = <<<<ColorsTwo>>, 1>>
    /\ faults = {}
    /\ MatAt(g_renderer[1].m_materials, 1) = <<255, 0, 0, 255>>
    /\ MatAt(g_renderer[1].m_materials, 2) = <<0, 0, 2, 255>>
    /\ MatAt(g_renderer[1].m_materials, 256) = <<0, 1, 0, 255>>

\* Bits lo .. lo + 7 of the two's complement pattern of a 32-bit int v, read
\* from the unsigned value v + 2^32 of a negative v split as 2^31 + (v - INT_MIN)
BitsOf(v, lo) ==
    LET low31 == IF v < 0 THEN v - INT_MIN ELSE v
        field == (low31 \div (2 ^ lo)) % 256
    IN IF lo = 24 /\ v < 0 THEN field + 128 ELSE field

\* C13: for every 32-bit value v at an index i < count of the colors array
\* (negative values included), UpdateMaterials stores material[i] = (r, g, b, a)
\* with a = bits 24-31 of v / 255, r = bits 16-23 / 255, g = bits 8-15 / 255 and
\* b = bits 0-7 / 255; [0xFFFF0000, 0xFF00FF00] with count 2 gives (1, 0, 0, 1)
\* and (0, 1, 0, 1). A component n of the table stands for n / 255.
C13_EntriesAreUnpackedARGB ==
    (/\ Did("UpdateMaterials")
     /\ lastCall.args[1] # Null
     /\ lastCall.args[2] > 0
     /\ g_renderer[1].m_materials.size = 256)
    => LET colors == lastCall.args[1][1]
           count == lastCall.args[2]
       IN /\ \A i \in 0 .. 255 :
                i < count =>
                    MatAt(g_renderer[1].m_materials, i + 1) =
                        <<BitsOf(colors[i + 1], 16), BitsOf(colors[i + 1], 8),
                          BitsOf(colors[i + 1], 0), BitsOf(colors[i + 1], 24)>>
          /\ (colors = ColorsTwo /\ count = 2) =>
                /\ MatAt(g_renderer[1].m_materials, 1) = <<255, 0, 0, 255>>
                /\ MatAt(g_renderer[1].m_materials, 2) = <<0, 255, 0, 255>>

\* C13 happens: UpdateMaterials has stored 256 colours, among them 0x80000000
\* as (0, 0, 0, 128/255), 0x7FFFFFFF as (1, 1, 1, 127/255), 0xFFFFFFFF as
\* (1, 1, 1, 1) and the positive 0x120B0B0B as (11, 11, 11, 18) / 255.
C13_Witness ==
    /\ Did("UpdateMaterials")
    /\ lastCall.args = <<<<Colors256>>, 300>>
    /\ MatAt(g_renderer[1].m_materials, 3) = <<0, 0, 0, 128>>
    /\ MatAt(g_renderer[1].m_materials, 5) = <<255, 255, 255, 127>>
    /\ MatAt(g_renderer[1].m_materials, 7) = <<255, 255, 255, 255>>
    /\ MatAt(g_renderer[1].m_materials, 11) = <<11, 11, 11, 18>>

\* C14: in every reachable state in which a renderer object exists, the
\* material table has exactly 256 entries and every component of every entry
\* is in [0, 1] (0 .. 255 in units of 1/255); until the first UpdateMaterials
\* that writes the table, all 256 entries are (0, 0, 0, 0).
C14_TableHas256Entries ==
    g_renderer # Null =>
        LET m == g_renderer[1].m_materials
        IN /\ m.size = 256
           /\ \A i \in DOMAIN m.nz : \A k \in 1..4 : m.nz[i][k] \in 0 .. 255
           /\ lastCall.op = "Initialize" => \A i \in 1 .. 256 : MatAt(m, i) = Transparent

\* ------------------------------------------------------------------
\* Properties of the camera (checked under SpecCamera)

\* C6: from every reachable camera state, the state at construction and the
\* state after ResetCamera included, RotateCamera(0, 0) leaves the camera
\* position equal to its value before the call.
C6_RotateZeroKeepsPosition ==
    [][(g_renderer # Null /\ lastCall'.op = "RotateCamera" /\ lastCall'.args = <<0, 0>>)
        => g_renderer'[1].m_cameraPosition = g_renderer[1].m_cameraPosition]_vars

\* C7: ResetCamera, after any sequence of RotateCamera and ZoomCamera calls,
\* sets theta = 0, phi = 0, radius = 2.0, focus = (0,0,0), up = (0,1,0) and
\* position = (0,0,-2) exactly.
C7_ResetRestoresDefaults ==
    Did("ResetCamera") =>
        /\ g_renderer[1].m_cameraTheta = 0
        /\ g_renderer[1].m_cameraPhi = 0
        /\ g_renderer[1].m_cameraRadius = 2 * Unit
        /\ g_renderer[1].m_focusPoint = <<0, 0, 0>>
        /\ g_renderer[1].m_upVector = <<0, Unit, 0>>
        /\ g_renderer[1].m_cameraPosition = <<0, 0, -(2 * Unit)>>

\* C7 happens: ResetCamera has just run on a renderer and left the defaults.
C7_Witness == Did("ResetCamera") /\ g_renderer[1].m_cameraRadius = 2 * Unit /\ g_renderer[1].m_cameraPhi = 0

\* C8 as stated: phi stays strictly inside the open interval
\* (-pi/2 + 0.1, pi/2 - 0.1) and never equals either bound.
C8_PhiStrictlyInside ==
    g_renderer # Null =>
        /\ g_renderer[1].m_cameraPhi > -XM_PIDIV2 + (Unit \div 10)
        /\ g_renderer[1].m_cameraPhi < XM_PIDIV2 - (Unit \div 10)

\* C8 amended: for any sequence of RotateCamera calls interleaved with
\* ZoomCamera and ResetCamera, phi stays inside the closed interval
\* [-pi/2 + 0.1, pi/2 - 0.1]; both bounds are attained.
C8_PhiWithinClosed ==
    g_renderer # Null =>
        /\ g_renderer[1].m_cameraPhi >= -XM_PIDIV2 + (Unit \div 10)
        /\ g_renderer[1].m_cameraPhi <= XM_PIDIV2 - (Unit \div 10)

\* C8 happens: a RotateCamera whose deltaY is positive has left phi on the upper bound.
C8_Witness ==
    /\ Did("RotateCamera")
    /\ lastCall.args[2] > 0
    /\ g_renderer[1].m_cameraPhi = XM_PIDIV2 - (Unit \div 10)

\* C9: for any sequence of ZoomCamera deltas interleaved with RotateCamera and
\* ResetCamera, the radius is always in [0.5, 10.0], and the position stored
\* by ZoomCamera is computed from the clamped radius, not from radius - delta.
C9_RadiusClamped ==
    [][g_renderer' # Null =>
        /\ g_renderer'[1].m_cameraRadius >= Unit \div 2
        /\ g_renderer'[1].m_cameraRadius <= 10 * Unit
        /\ (g_renderer # Null /\ lastCall'.op = "ZoomCamera") =>
              LET raw == g_renderer[1].m_cameraRadius - lastCall'.args[1]
                  clamped == IF raw < Unit \div 2 THEN Unit \div 2
                             ELSE IF raw > 10 * Unit THEN 10 * Unit ELSE raw
              IN /\ g_renderer'[1].m_cameraRadius = clamped
                 /\ g_renderer'[1].m_cameraPosition =
                        OrbitPosition(g_renderer[1].m_focusPoint, clamped,
                                      g_renderer[1].m_cameraTheta, g_renderer[1].m_cameraPhi)]_vars

\* C9 happens: a ZoomCamera by 3.0 has left the radius on 0.5, which the zoom
\* steps reach only through the clamp, and the position is at distance 0.5.
C9_Witness ==
    /\ Did("ZoomCamera")
    /\ lastCall.args = <<3 * Unit>>
    /\ g_renderer[1].m_cameraRadius = Unit \div 2
    /\ g_renderer[1].m_cameraTheta = 0
    /\ g_renderer[1].m_cameraPhi = 0
    /\ g_renderer[1].m_cameraPosition = <<0, 0, Unit \div 2>>

\* The cached camera position of renderer r is the orbit point of its angles,
\* radius and focus
OnOrbit(r) ==
    r.m_cameraPosition = OrbitPosition(r.m_focusPoint, r.m_cameraRadius, r.m_cameraTheta, r.m_cameraPhi)

\* C27: after every RotateCamera, ZoomCamera and ResetCamera the cached camera
\* position equals focus + radius * (cos(phi) sin(theta), sin(phi),
\* cos(phi) cos(theta)); the cached position is never stale.
C27_PositionOnOrbit ==
    (Did("RotateCamera") \/ Did("ZoomCamera") \/ Did("ResetCamera")) => OnOrbit(g_renderer[1])

\* ------------------------------------------------------------------
\* Properties of the release order (checked under SpecVolume)

\* The commands before the first Release of gpu
BeforeReleases(gpu) ==
    SubSeq(gpu, 1, (CHOOSE n \in 0 .. Len(gpu) :
                        /\ \A i \in 1 .. n : gpu[i].call # "Release"
                        /\ n < Len(gpu) => gpu[n + 1].call = "Release"))

\* The Release calls of gpu
ReleaseCalls(gpu) == SelectSeq(gpu, LAMBDA c : c.call = "Release")

\* C29: Shutdown first clears the bound state and flushes (when a context
\* exists), then releases in the order material and constant buffers, index
\* and vertex buffers, sampler, label view and texture, volume view and
\* texture, input layout, fragment and vertex programs, depth and render
\* target views, swap chain, context, device: the device is released last and
\* no resource is released after the device that created it.
C29_ReleaseOrder ==
    [][(lastCall'.op = "Shutdown" /\ g_renderer # Null)
        => LET rel == ReleaseCalls(gpuCalls')
           IN /\ Commands(BeforeReleases(gpuCalls'))
                    = IF g_renderer[1].m_context # Null
                        THEN << <<"ClearState", "m_context">>, <<"Flush", "m_context">> >>
                      ELSE <<>>
              /\ InOrder(rel, [i \in DOMAIN ShutdownOrder |-> <<"Release", ShutdownOrder[i]>>])
              /\ g_renderer[1].m_device # Null
                    => rel[Len(rel)].arg = "m_device"]_vars

\* ------------------------------------------------------------------
\* Properties of the objects of a frame (checked under SpecSurface)

\* The members Render binds without testing them
BoundUnconditionally ==
    {"m_renderTargetView", "m_depthStencilView", "m_vertexBuffer", "m_indexBuffer", "m_inputLayout",
     "m_vertexShader", "m_pixelShader"}

\* C30: whenever Render passes its precondition check, every object it binds
\* unconditionally (render-target view, depth view, vertex buffer, index
\* buffer, input layout, vertex and fragment programs) is non-null, in every
\* state reachable through Initialize, Resize, the loads and Shutdown,
\* sequences in which a graphics call fails included.
C30_BoundObjectsExist ==
    [][(lastCall'.op = "Render" /\ PassesRenderCheck(g_renderer))
        => /\ \A f \in BoundUnconditionally : g_renderer[1][f] # Null
           /\ \A i \in DOMAIN gpuCalls' : ~gpuCalls'[i].null]_vars

\* ------------------------------------------------------------------
\* Properties of a repeated Initialize (checked under Spec)

\* C31: if Initialize is called while a renderer from an earlier successful
\* Initialize exists, and the new call returns false, then the earlier
\* renderer is unchanged: its device, loaded volume and labels, material
\* table, camera state and rendering parameters are as before (so that a
\* following Render still draws a frame).
C31_FailedInitializeKeepsRenderer ==
    [][(/\ lastCall'.op = "Initialize"
        /\ lastCall'.ret = Bool(FALSE)
        /\ g_renderer # Null
        /\ Initialized(g_renderer[1]))
        => g_renderer' = g_renderer]_vars

\* ------------------------------------------------------------------
\* Properties of the success messages (checked under SpecSurface)

\* The message msg is among the Log calls of log
Logged(log, msg) == \E i \in DOMAIN log : log[i].msg = msg

\* C32: Resize logs "Renderer resized successfully" only when the renderer's
\* resize completed every step, and UpdateMaterials logs "Materials updated
\* successfully" only when the material table was written and uploaded: a
\* success message is never logged for a call during which the renderer
\* logged an ERROR.
C32_SuccessOnlyWithoutError ==
    /\ (lastCall.op = "Resize" /\ Logged(logCalls, "Renderer resized successfully"))
          => /\ ~HasError(logCalls)
             /\ Logged(logCalls, "Resize completed successfully")
    /\ (lastCall.op = "UpdateMaterials" /\ Logged(logCalls, "Materials updated successfully"))
          => /\ ~HasError(logCalls)
             /\ Logged(logCalls, "Material buffer updated successfully")

\* ------------------------------------------------------------------
\* Properties of the pitches (checked under SpecPitch)

\* The CreateTexture3D calls among gpu
TextureCreations(gpu) == SelectSeq(gpu, LAMBDA c : c.call = "CreateTexture3D")

\* The unsigned 32-bit value with the bits of the int n is the exact product
\* of w and h
IsExactProduct(n, w, h) ==
    /\ \A k \in 0..3 : Limb(n, k) = ProductLimb(w, h, k)
    /\ \A k \in 4..7 : ProductLimb(w, h, k) = 0

\* C33: for all positive 32-bit width and height passed to LoadVolumeData,
\* the row pitch handed to 3D texture creation equals width and the slice
\* pitch equals the exact product width * height, with no 32-bit wrap-around.
C33_PitchesExact ==
    (lastCall.op = "LoadVolumeData" /\ TextureCreations(gpuCalls) # <<>>)
        => LET made == TextureCreations(gpuCalls)[1].data
           IN /\ made.SysMemPitch = lastCall.args[2]
              /\ IsExactProduct(made.SysMemSlicePitch, lastCall.args[2], lastCall.args[3])
              /\ SignedOverflow \notin faults

\* ------------------------------------------------------------------
\* Properties of the draw and the present (checked under SpecSurface)

\* The positions in gpu of the command `call`
PositionsOf(gpu, call) == {i \in DOMAIN gpu : gpu[i].call = call}

\* C34: every Render call that passes its precondition check issues exactly
\* one indexed draw of 36 indices followed by exactly one present with sync
\* interval 1, whether or not a volume, label or sampler is bound; a failed
\* present is logged at ERROR severity and changes no renderer state (so that
\* the next Render call runs the full sequence again).
C34_OneDrawOnePresent ==
    [][(lastCall'.op = "Render" /\ PassesRenderCheck(g_renderer))
        => /\ faults' = {}
           /\ ~crashed'
           /\ Cardinality(PositionsOf(gpuCalls', "DrawIndexed(36)")) = 1
           /\ PositionsOf(gpuCalls', "Present(1)") = {Len(gpuCalls')}
           /\ PositionsOf(gpuCalls', "DrawIndexed(36)") = {Len(gpuCalls') - 1}
           /\ g_renderer' = g_renderer
           /\ lastCall'.api = "Present" => HasError(logCalls')]_vars

\* ------------------------------------------------------------------
\* Properties of the aspect ratio (checked under SpecSurface)

\* The uploads of the transform constants among gpu: UpdateConstantBuffers
\* has computed the aspect ratio for each
TransformUploads(gpu) ==
    {i \in DOMAIN gpu : gpu[i].call = "UpdateSubresource" /\ gpu[i].arg = "m_constantBuffer"}

\* C35: whenever Render computes the projection aspect ratio, the stored
\* surface width and height are both > 0, in every state reachable through
\* Initialize, Resize (rejected and failing calls included) and Shutdown: the
\* division width / height never has a zero or negative denominator.
C35_AspectRatioDefined ==
    [][(lastCall'.op = "Render" /\ TransformUploads(gpuCalls') # {})
        => /\ g_renderer # Null
           /\ g_renderer[1].m_width > 0
           /\ g_renderer[1].m_height > 0
           /\ \A i \in TransformUploads(gpuCalls') :
                 gpuCalls'[i].data.aspectRatio
                    = <<(g_renderer[1].m_width * Unit) \div g_renderer[1].m_height>>]_vars

\* C35 happens: a Render has computed the aspect ratio after a Resize was
\* rejected or failed and left the size of the Initialize call.
C35_Witness ==
    /\ Did("Render")
    /\ TransformUploads(gpuCalls) # {}
    /\ g_renderer[1].m_width = 800
    /\ g_renderer[1].m_swapChain[1].width # 800

\* ------------------------------------------------------------------
\* The camera across sessions (checked under SpecCamera)

\* The camera the constructor sets up
CameraDefault(r) ==
    /\ r.m_cameraTheta = 0
    /\ r.m_cameraPhi = 0
    /\ r.m_cameraRadius = F_2
    /\ r.m_focusPoint = <<0, 0, 0>>
    /\ r.m_upVector = <<0, Unit, 0>>
    /\ r.m_cameraPosition = <<0, 0, -F_2>>

\* C36: the camera does not persist across sessions: a Shutdown leaves no
\* renderer, whatever RotateCamera and ZoomCamera calls came before, and a
\* successful Initialize, after a Shutdown or not, leaves theta = 0, phi = 0,
\* radius = 2.0, focus (0,0,0), up (0,1,0) and position (0,0,-2).
C36_CameraNotPersistent ==
    [][/\ lastCall'.op = "Shutdown" => g_renderer' = Null
       /\ (lastCall'.op = "Initialize" /\ lastCall'.ret = Bool(TRUE))
            => (g_renderer' # Null /\ CameraDefault(g_renderer'[1]))]_vars

\* C36 happens: an Initialize has succeeded and the renderer's camera is the
\* constructor's.
C36_Witness ==
    /\ Did("Initialize")
    /\ lastCall.ret = Bool(TRUE)
    /\ Initialized(g_renderer[1])
    /\ CameraDefault(g_renderer[1])

\* ------------------------------------------------------------------
\* Device creation (checked under SpecDevice)

\* How many Log calls of `log` carry msg
TimesLogged(log, msg) == Cardinality({i \in DOMAIN log : log[i].msg = msg})

\* The attempts at D3D11CreateDeviceAndSwapChain of a call with this log: the
\* first follows the swap chain dimensions, the second "Retrying without
\* debug layer"
FirstAttempts(log) == TimesLogged(log, "Requested swap chain dimensions: %dx%d")

SecondAttempts(log) == TimesLogged(log, "Retrying without debug layer")

FirstAttemptFailed(log) == Logged(log, "D3D11CreateDeviceAndSwapChain failed, HRESULT: 0x%08X")

SecondAttemptFailed(log) == Logged(log, "Second attempt failed, HRESULT: 0x%08X")

\* CreateDeviceAndSwapChain returned true / false to VolumeRenderer::Initialize
DeviceCreationSucceeded(log) == Logged(log, "Device and swap chain created successfully")

DeviceCreationFailed(log) == Logged(log, "Failed to create device and swap chain")

\* C37: device creation returns success as soon as one attempt succeeds and
\* failure only if every attempt it made failed; a second attempt, without
\* the debug layer, is made exactly when the first attempt requested that
\* layer and failed; there are never more than two attempts.
C37_DeviceAttempts ==
    (lastCall.op = "Initialize" /\ FirstAttempts(logCalls) > 0) =>
        /\ FirstAttempts(logCalls) = 1
        /\ SecondAttempts(logCalls) <= 1
        /\ FirstAttemptFailed(logCalls) <=> lastCall.api = "D3D11CreateDeviceAndSwapChain"
        /\ SecondAttempts(logCalls) = 1 <=> (debugBuild /\ FirstAttemptFailed(logCalls))
        /\ SecondAttemptFailed(logCalls) => SecondAttempts(logCalls) = 1
        /\ DeviceCreationSucceeded(logCalls) <=> ~DeviceCreationFailed(logCalls)
        /\ DeviceCreationSucceeded(logCalls)
              <=> \/ ~FirstAttemptFailed(logCalls)
                  \/ SecondAttempts(logCalls) = 1 /\ ~SecondAttemptFailed(logCalls)
        /\ DeviceCreationFailed(logCalls)
              <=> /\ FirstAttemptFailed(logCalls)
                  /\ SecondAttempts(logCalls) = 1 => SecondAttemptFailed(logCalls)
        /\ DeviceCreationSucceeded(logCalls)
              <=> (g_renderer # Null /\ g_renderer[1].m_device # Null)
        /\ (g_renderer # Null /\ g_renderer[1].m_device # Null)
              => (g_renderer[1].m_device[1].debug <=> (debugBuild /\ SecondAttempts(logCalls) = 0))

\* C37 happens: in a debug build the first attempt failed, the attempt
\* without the debug layer succeeded, and Initialize went on to return true.
C37_Witness ==
    /\ Did("Initialize")
    /\ lastCall.ret = Bool(TRUE)
    /\ debugBuild
    /\ FirstAttemptFailed(logCalls)
    /\ SecondAttempts(logCalls) = 1
    /\ ~g_renderer[1].m_device[1].debug

====
